---- MODULE Spec2Model ----
(***************************************************************************)
(* A model of the snake match judge: the simulation engine of              *)
(* engine/game.go, the agent handle of engine/process.go and the match     *)
(* orchestrator of engine/match.go.                                        *)
(***************************************************************************)
EXTENDS Integers, Sequences, FiniteSets, TLC

(* ------------------------------------------------------------------ *)
(* Bounds of the model                                                 *)
(* ------------------------------------------------------------------ *)

\* Grid size given to NewGameState (MatchConfig.GridWidth / GridHeight).
GridWidth == 5
GridHeight == 3

\* MatchConfig.MaxTurns of the modelled matches.
MaxTurns == 3

\* The values the random source returns for rand.Intn(n) are r % n with
\* r in 0 .. RandBound - 1.
RandBound == 2

\* Grid height and MatchConfig.MaxTurns of the matches run by Match.Run.
MatchGridHeight == 4
MatchTurns == 2

\* The number of turns already played when the late game is taken up.
PreTurns == 57

\* The number of turns of the longer games.
LongTurns == 6

(* ------------------------------------------------------------------ *)
(* Program constants                                                   *)
(* ------------------------------------------------------------------ *)

StartEnergy == 60
SpeedTurns == 5
SleepTurns == 5
NeutralBand == 3
InitialApples == 3

DirectionUp == "UP"
DirectionDown == "DOWN"
DirectionLeft == "LEFT"
DirectionRight == "RIGHT"
Directions == {DirectionUp, DirectionDown, DirectionLeft, DirectionRight}

AppleNormal == "NORMAL"
AppleGod == "GOD"
AppleSpeed == "SPEED"
AppleSleep == "SLEEP"
ApplePoison == "POISON"
AppleTypes == {AppleNormal, AppleGod, AppleSpeed, AppleSleep, ApplePoison}

Position(px, py) == [x |-> px, y |-> py]

\* A nil *Map, and the maps of the modelled matches.
NilMap == [nil |-> TRUE, width |-> 0, height |-> 0, obstacles |-> <<>>]
ObstacleMap ==
  [nil |-> FALSE, width |-> GridWidth, height |-> GridHeight,
   obstacles |-> <<Position(2, 1)>>]
Maps == {NilMap, ObstacleMap}

Min2(a, b) == IF a < b THEN a ELSE b
Abs(a) == IF a < 0 THEN 0 - a ELSE a
SeqToSet(s) == {s[i] : i \in 1..Len(s)}

(* ------------------------------------------------------------------ *)
(* Snake                                                               *)
(* ------------------------------------------------------------------ *)

GetHead(s) == IF Len(s.body) = 0 THEN Position(-1, -1) ELSE s.body[1]

Opposite(d) ==
  CASE d = DirectionUp -> DirectionDown
    [] d = DirectionDown -> DirectionUp
    [] d = DirectionLeft -> DirectionRight
    [] d = DirectionRight -> DirectionLeft
    [] OTHER -> ""

\* isNot180 accepting every direction.
isNot180Always(s, newDir) == TRUE

isNot180(s, newDir) ==
  IF Len(s.body) < 2 THEN TRUE ELSE Opposite(s.direction) # newDir

\* A getNextPosition that leaves the row and the column at once.
getNextPositionDiagonal(pos, dir) ==
  CASE dir = DirectionUp -> Position(pos.x + 1, pos.y - 1)
    [] dir = DirectionDown -> Position(pos.x - 1, pos.y + 1)
    [] dir = DirectionLeft -> Position(pos.x - 1, pos.y - 1)
    [] dir = DirectionRight -> Position(pos.x + 1, pos.y + 1)
    [] OTHER -> pos

\* Snake.getNextPosition.
getNextPosition(pos, dir) ==
  CASE dir = DirectionUp -> Position(pos.x, pos.y - 1)
    [] dir = DirectionDown -> Position(pos.x, pos.y + 1)
    [] dir = DirectionLeft -> Position(pos.x - 1, pos.y)
    [] dir = DirectionRight -> Position(pos.x + 1, pos.y)
    [] OTHER -> pos

\* The second half of Snake.Move, once the direction dir is settled.
MoveHead(s, dir, grow) ==
  IF ~grow
    THEN [s EXCEPT !.direction = dir,
                   !.body = <<getNextPosition(GetHead(s), dir)>>
                              \o SubSeq(s.body, 1, Len(s.body) - 1)]
    ELSE [s EXCEPT !.direction = dir,
                   !.body = <<getNextPosition(GetHead(s), dir)>> \o s.body,
                   !.length = s.length + 1]

\* Snake.Move: the direction is taken unless it is a reversal, the new head is
\* put in front and, when not growing, the tail cell is dropped.
Move(s, newDirection, grow) ==
  IF ~s.alive THEN s
  ELSE MoveHead(s, IF isNot180(s, newDirection) THEN newDirection ELSE s.direction,
                grow)

(* ------------------------------------------------------------------ *)
(* Collisions                                                          *)
(* ------------------------------------------------------------------ *)

OtherID(snakeID) == 3 - snakeID

Die(s, reason) == [s EXCEPT !.alive = FALSE, !.deathReason = reason]

\* A CheckCollision without the check against the other snake's body.
CheckCollisionNoBody(g, snakeID) ==
  LET snake == g.snakes[snakeID]
      head == GetHead(snake)
  IN IF ~snake.alive THEN snake
     ELSE IF head.x < 0 \/ head.x >= g.gridWidth
              \/ head.y < 0 \/ head.y >= g.gridHeight
       THEN Die(snake, "wall")
     ELSE IF \E i \in 2..Len(snake.body) : snake.body[i] = head
       THEN Die(snake, "self")
     ELSE IF ~g.map.nil /\ \E i \in 1..Len(g.map.obstacles) : g.map.obstacles[i] = head
       THEN Die(snake, "obstacle")
     ELSE snake

\* GameState.CheckCollision: the snake after the check (dead, with its
\* reason, when it collided).
CheckCollision(g, snakeID) ==
  LET snake == g.snakes[snakeID]
      head == GetHead(snake)
      otherSnake == g.snakes[OtherID(snakeID)]
  IN IF ~snake.alive THEN snake
     ELSE IF head.x < 0 \/ head.x >= g.gridWidth
              \/ head.y < 0 \/ head.y >= g.gridHeight
       THEN Die(snake, "wall")
     ELSE IF \E i \in 2..Len(snake.body) : snake.body[i] = head
       THEN Die(snake, "self")
     ELSE IF \E i \in 2..Len(otherSnake.body) : otherSnake.body[i] = head
       THEN Die(snake, "body")
     ELSE IF ~g.map.nil /\ \E i \in 1..Len(g.map.obstacles) : g.map.obstacles[i] = head
       THEN Die(snake, "obstacle")
     ELSE snake

(* ------------------------------------------------------------------ *)
(* Movement: the sub-steps of ProcessTurn                              *)
(* ------------------------------------------------------------------ *)

\* movesToMake without the speed bonus.
movesToMakeOne(s) == 1

movesToMake(s) == IF s.speedTurns > 0 THEN 2 ELSE 1

maxMoves(g) ==
  IF movesToMake(g.snakes[2]) > movesToMake(g.snakes[1])
    THEN movesToMake(g.snakes[2]) ELSE movesToMake(g.snakes[1])

\* StepsNow without the sleep check.
StepsNowAwake(s, moveCount) == moveCount < movesToMake(s)

\* Whether the snake takes a step in sub-step moveCount (0 or 1).
StepsNow(s, moveCount) == s.sleepTurns <= 0 /\ moveCount < movesToMake(s)

\* Both snakes' Move calls of one sub-step.
StepMoves(g, moveCount, move1, move2) ==
  LET s1 == IF StepsNow(g.snakes[1], moveCount)
              THEN Move(g.snakes[1], move1, FALSE) ELSE g.snakes[1]
      s2 == IF StepsNow(g.snakes[2], moveCount)
              THEN Move(g.snakes[2], move2, FALSE) ELSE g.snakes[2]
  IN [g EXCEPT !.snakes = <<s1, s2>>]

\* A second check that is skipped when the first check killed snake 1.
CheckSecondIfFirstAlive(g) ==
  IF g.snakes[1].alive THEN [g EXCEPT !.snakes[2] = CheckCollision(g, 2)] ELSE g

\* CheckCollision(2), on the state CheckCollision(1) left.
CheckSecond(g) == [g EXCEPT !.snakes[2] = CheckCollision(g, 2)]

\* CheckCollision(1) then CheckCollision(2).
StepCollisions(g) ==
  CheckSecond([g EXCEPT !.snakes[1] = CheckCollision(g, 1)])

\* The head-to-head check with the longer snake dying.
StepHeadToHeadLongerDies(g) ==
  LET s1 == g.snakes[1]
      s2 == g.snakes[2]
  IN IF s1.alive /\ s2.alive /\ GetHead(s1) = GetHead(s2)
       THEN IF s1.length > s2.length
              THEN [g EXCEPT !.snakes[1] = Die(s1, "head-to-head")]
            ELSE IF s2.length > s1.length
              THEN [g EXCEPT !.snakes[2] = Die(s2, "head-to-head")]
            ELSE [g EXCEPT !.snakes[1] = Die(s1, "head-to-head"),
                           !.snakes[2] = Die(s2, "head-to-head")]
       ELSE g

\* The head-to-head check that follows the two CheckCollision calls.
StepHeadToHead(g) ==
  LET s1 == g.snakes[1]
      s2 == g.snakes[2]
  IN IF s1.alive /\ s2.alive /\ GetHead(s1) = GetHead(s2)
       THEN IF s1.length > s2.length
              THEN [g EXCEPT !.snakes[2] = Die(s2, "head-to-head")]
            ELSE IF s2.length > s1.length
              THEN [g EXCEPT !.snakes[1] = Die(s1, "head-to-head")]
            ELSE [g EXCEPT !.snakes[1] = Die(s1, "head-to-head"),
                           !.snakes[2] = Die(s2, "head-to-head")]
       ELSE g

SubStep(g, moveCount, move1, move2) ==
  StepHeadToHead(StepCollisions(StepMoves(g, moveCount, move1, move2)))

\* collision1 || collision2 of a sub-step that took `before` to `after`.
Collided(before, after) ==
  \E i \in 1..2 : before.snakes[i].alive /\ ~after.snakes[i].alive

\* A loop that does not break after a collision.
RunsSecondAfterDeath(g, sub1) == maxMoves(g) > 1

\* Whether the loop runs a second sub-step after the first one gave `sub1`.
RunsSecond(g, sub1) == maxMoves(g) > 1 /\ ~Collided(g, sub1)

(* ------------------------------------------------------------------ *)
(* Apples                                                              *)
(* ------------------------------------------------------------------ *)

ApplePos(a) == Position(a.x, a.y)

\* A removal that leaves the slice as it was.
RemoveAtNone(s, i) == s

RemoveAt(s, i) == SubSeq(s, 1, i - 1) \o SubSeq(s, i + 1, Len(s))

\* GameState.CheckAppleEaten: the first apple under the head of a living
\* snake is removed.
CheckAppleEaten(g, snakeID) ==
  LET snake == g.snakes[snakeID]
      head == GetHead(snake)
      hits == {i \in 1..Len(g.apples) : ApplePos(g.apples[i]) = head}
  IN IF ~snake.alive \/ hits = {}
       THEN [eaten |-> FALSE, type |-> "", g |-> g]
       ELSE LET i == CHOOSE k \in hits : \A j \in hits : k <= j
            IN [eaten |-> TRUE, type |-> g.apples[i].type,
                g |-> [g EXCEPT !.apples = RemoveAt(g.apples, i)]]

TailCell(s) == s.body[Len(s.body)]

\* A growth of one cell whatever the apple is worth.
GrowOne(s, n) ==
  IF Len(s.body) > 0 THEN [s EXCEPT !.body = Append(s.body, TailCell(s))] ELSE s

\* A growth that appends copies of the head cell.
GrowAtHead(s, n) ==
  IF Len(s.body) > 0 THEN [s EXCEPT !.body = s.body \o [k \in 1..n |-> s.body[1]]] ELSE s

\* n copies of the current tail cell appended to the body.
Grow(s, n) ==
  IF Len(s.body) > 0
    THEN [s EXCEPT !.body = s.body \o [k \in 1..n |-> TailCell(s)]]
    ELSE s

\* A POISON case without the floors of length and score.
PoisonNoFloor(snake) ==
  [snake EXCEPT !.length = @ - 1,
                !.body = IF Len(@) > 0 THEN SubSeq(@, 1, Len(@) - 1) ELSE @,
                !.score = @ - 1]

\* The POISON case of ApplyAppleEffect: one cell and one point less, the
\* length not below 1 and the score not below 0.
Poison(snake) ==
  LET shrunk ==
        IF snake.length > 1
          THEN [snake EXCEPT
                  !.length = @ - 1,
                  !.body = IF Len(@) > 0 THEN SubSeq(@, 1, Len(@) - 1) ELSE @]
          ELSE snake
  IN [shrunk EXCEPT !.score = IF @ > 0 THEN @ - 1 ELSE @]

\* GameState.ApplyAppleEffect.
ApplyAppleEffect(g, snakeID, appleType) ==
  LET snake == [g.snakes[snakeID] EXCEPT !.energy = StartEnergy]
      other == g.snakes[OtherID(snakeID)]
      put(s, o) == [g EXCEPT !.snakes[snakeID] = s, !.snakes[OtherID(snakeID)] = o]
  IN CASE appleType = AppleNormal ->
            put(Grow([snake EXCEPT !.length = @ + 1, !.score = @ + 1], 1), other)
       [] appleType = AppleGod ->
            put(Grow([snake EXCEPT !.length = @ + 3, !.score = @ + 3], 3), other)
       [] appleType = AppleSpeed ->
            put(Grow([snake EXCEPT !.length = @ + 1, !.score = @ + 1,
                                   !.speedTurns = SpeedTurns], 1), other)
       [] appleType = AppleSleep ->
            put(Grow([snake EXCEPT !.length = @ + 1, !.score = @ + 1], 1),
                [other EXCEPT !.sleepTurns = SleepTurns])
       [] appleType = ApplePoison -> put(Poison(snake), other)
       [] OTHER -> put(snake, other)

(* ------------------------------------------------------------------ *)
(* Zone-balanced spawning                                              *)
(* ------------------------------------------------------------------ *)

manhattanDistance(p1, p2) == Abs(p1.x - p2.x) + Abs(p1.y - p2.y)

\* Occupied without the existing apples.
OccupiedNoApples(g) ==
  UNION {SeqToSet(g.snakes[i].body) : i \in 1..2}
    \cup (IF g.map.nil THEN {} ELSE SeqToSet(g.map.obstacles))

\* Occupied without the snake segments.
OccupiedNoSnakes(g) ==
  {ApplePos(g.apples[i]) : i \in 1..Len(g.apples)}
    \cup (IF g.map.nil THEN {} ELSE SeqToSet(g.map.obstacles))

\* The occupied map of SpawnApple: snake segments, apples, obstacles.
Occupied(g) ==
  UNION {SeqToSet(g.snakes[i].body) : i \in 1..2}
    \cup {ApplePos(g.apples[i]) : i \in 1..Len(g.apples)}
    \cup (IF g.map.nil THEN {} ELSE SeqToSet(g.map.obstacles))

\* The zone of a cell relative to the two heads.
ZoneOf(g, pos) ==
  LET dist1 == manhattanDistance(pos, GetHead(g.snakes[1]))
      dist2 == manhattanDistance(pos, GetHead(g.snakes[2]))
  IN IF Abs(dist1 - dist2) <= NeutralBand THEN "neutral"
     ELSE IF dist1 < dist2 THEN "snake1"
     ELSE "snake2"

\* The grid cells in the order of the scan: rows top to bottom, each left to right.
GridScan(g) ==
  [k \in 1..(g.gridWidth * g.gridHeight) |->
     Position((k - 1) % g.gridWidth, (k - 1) \div g.gridWidth)]

\* snake1Positions, snake2Positions, neutralPositions.
ZonePositions(g, zone) ==
  LET occ == Occupied(g)
      free(pos) == pos \notin occ /\ ZoneOf(g, pos) = zone
  IN SelectSeq(GridScan(g), free)

\* snake1AppleCount, snake2AppleCount, neutralAppleCount.
ZoneAppleCount(g, zone) ==
  Cardinality({i \in 1..Len(g.apples) : ZoneOf(g, ApplePos(g.apples[i])) = zone})

\* The three position lists of a SpawnApple call.
Zones(g) ==
  [snake1 |-> ZonePositions(g, "snake1"), snake2 |-> ZonePositions(g, "snake2"),
   neutral |-> ZonePositions(g, "neutral")]

\* The zone selected from the two snake-zone apple counts n1 and n2 and the
\* position lists z, before the fallback.
FirstZone(n1, n2, z) ==
  IF n2 < n1 /\ Len(z.snake2) > 0 THEN "snake2"
  ELSE IF n1 < n2 /\ Len(z.snake1) > 0 THEN "snake1"
  ELSE "neutral"

\* A fallback that tries snake 2's zone before the other two.
FallbackSnake2First(first, z) ==
  IF Len(z[first]) > 0 THEN first
  ELSE IF Len(z.snake2) > 0 THEN "snake2"
  ELSE IF Len(z.neutral) > 0 THEN "neutral"
  ELSE IF Len(z.snake1) > 0 THEN "snake1"
  ELSE "none"

\* The fallback when the list of the zone selected first is empty.
Fallback(first, z) ==
  IF Len(z[first]) > 0 THEN first
  ELSE IF Len(z.neutral) > 0 THEN "neutral"
  ELSE IF Len(z.snake1) > 0 THEN "snake1"
  ELSE IF Len(z.snake2) > 0 THEN "snake2"
  ELSE "none"

\* The zone SpawnApple selects, after its fallback.
SelectedZone(g) ==
  Fallback(FirstZone(ZoneAppleCount(g, "snake1"), ZoneAppleCount(g, "snake2"),
                     Zones(g)),
           Zones(g))

PositionsOf(g, zone) == IF zone = "none" THEN <<>> ELSE ZonePositions(g, zone)

selectedPositions(g) == PositionsOf(g, SelectedZone(g))

\* The weighted draw of the apple type from rng = rand.Intn(100).
AppleTypeOf(rng) ==
  IF rng < 60 THEN AppleNormal
  ELSE IF rng < 75 THEN AppleGod
  ELSE IF rng < 90 THEN AppleSpeed
  ELSE IF rng < 95 THEN AppleSleep
  ELSE ApplePoison

\* The end of SpawnApple: the apple put on selectedPositions[randomIndex].
AppendApple(g, sel, randomIndex, rng) ==
  IF Len(sel) > 0
    THEN [g EXCEPT !.apples =
            Append(@, [x |-> sel[randomIndex + 1].x, y |-> sel[randomIndex + 1].y,
                       type |-> AppleTypeOf(rng)])]
    ELSE g

\* GameState.SpawnApple with its two random draws given.
SpawnApple(g, randomIndex, rng) ==
  AppendApple(g, selectedPositions(g), randomIndex, rng)

\* One value of rand.Intn(100) for each apple type it can give.
RngDraws ==
  {CHOOSE rng \in 0..99 : AppleTypeOf(rng) = t : t \in {AppleTypeOf(r) : r \in 0..99}}

RngOf(t) == CHOOSE rng \in RngDraws : AppleTypeOf(rng) = t

\* What the random source returns to one SpawnApple call: the value behind
\* rand.Intn(len(selectedPositions)) and the value of rand.Intn(100).
Draw(i, rng) == [index |-> i, rng |-> rng]

\* The random source is a tape of draws that the SpawnApple calls of a match
\* consume in order and that repeats.  The modelled tapes: every tape that
\* repeats one draw, and three tapes that alternate two apple types.
RandTapes ==
  {<<Draw(i, rng)>> : i \in 0..(RandBound - 1), rng \in RngDraws}
    \cup {<<Draw(1, RngOf(AppleSpeed)), Draw(1, RngOf(AppleSleep))>>,
          <<Draw(1, RngOf(AppleGod)), Draw(1, RngOf(ApplePoison))>>,
          <<Draw(0, RngOf(AppleSleep)), Draw(0, RngOf(AppleNormal))>>}

\* SpawnApple with its draws taken from the tape rnd, n being
\* len(selectedPositions).
SpawnDrawn(g, rnd, n) ==
  IF n = 0 THEN [g |-> g, rand |-> rnd]
  ELSE [g |-> SpawnApple(g, Head(rnd).index % n, Head(rnd).rng),
        rand |-> Tail(rnd) \o <<Head(rnd)>>]

\* SpawnApple drawing from the tape rnd: the state and the tape it leaves.
\* The tape moves on only when rand is called, that is when a cell is free.
SpawnFrom(g, rnd) == SpawnDrawn(g, rnd, Len(selectedPositions(g)))

(* ------------------------------------------------------------------ *)
(* ProcessTurn                                                         *)
(* ------------------------------------------------------------------ *)

\* A checkGameOver that calls every double death a draw.
checkGameOverDraw(g) ==
  IF ~g.snakes[1].alive /\ ~g.snakes[2].alive
    THEN [g EXCEPT !.gameOver = TRUE, !.winner = 0]
  ELSE IF ~g.snakes[1].alive THEN [g EXCEPT !.gameOver = TRUE, !.winner = 2]
  ELSE IF ~g.snakes[2].alive THEN [g EXCEPT !.gameOver = TRUE, !.winner = 1]
  ELSE g

\* GameState.checkGameOver.
checkGameOver(g) ==
  LET a1 == g.snakes[1].alive
      a2 == g.snakes[2].alive
  IN IF ~a1 /\ ~a2
       THEN [g EXCEPT !.gameOver = TRUE,
                      !.winner = IF g.snakes[1].length > g.snakes[2].length THEN 1
                                 ELSE IF g.snakes[2].length > g.snakes[1].length THEN 2
                                 ELSE 0]
     ELSE IF ~a1 THEN [g EXCEPT !.gameOver = TRUE, !.winner = 2]
     ELSE IF ~a2 THEN [g EXCEPT !.gameOver = TRUE, !.winner = 1]
     ELSE g

\* The timer decrements that follow the apple effects.
DecrementTimers(g) ==
  LET dec(s) == [s EXCEPT !.speedTurns = IF @ > 0 THEN @ - 1 ELSE @,
                          !.sleepTurns = IF @ > 0 THEN @ - 1 ELSE @]
  IN [g EXCEPT !.snakes = <<dec(g.snakes[1]), dec(g.snakes[2])>>]

\* A depletion that lets a snake live at energy 0.
DepleteBelowZero(s, ate) ==
  IF s.alive /\ ~ate
    THEN LET e == s.energy - 1
         IN IF e < 0
              THEN [s EXCEPT !.energy = e, !.alive = FALSE, !.deathReason = "hunger"]
              ELSE [s EXCEPT !.energy = e]
    ELSE s

\* A depletion that does not spare the snake that ate.
DepleteAlways(s, ate) ==
  IF s.alive
    THEN LET e == s.energy - 1
         IN IF e <= 0
              THEN [s EXCEPT !.energy = e, !.alive = FALSE, !.deathReason = "hunger"]
              ELSE [s EXCEPT !.energy = e]
    ELSE s

\* Energy depletion of one snake; ate tells whether it ate this turn.
Deplete(s, ate) ==
  IF s.alive /\ ~ate
    THEN LET e == s.energy - 1
         IN IF e <= 0
              THEN [s EXCEPT !.energy = e, !.alive = FALSE, !.deathReason = "hunger"]
              ELSE [s EXCEPT !.energy = e]
    ELSE s

\* The part of ProcessTurn after the apples: timers, energy, game over.
FinishTurn(g, ate1, ate2) ==
  LET t == DecrementTimers(g)
  IN checkGameOver([t EXCEPT !.snakes = <<Deplete(t.snakes[1], ate1),
                                          Deplete(t.snakes[2], ate2)>>])

\* The SpawnApple call that follows ApplyAppleEffect; fed is the state the
\* effect left, out what the spawn made of it.
Spawned(type, fed, out) ==
  [ate |-> TRUE, type |-> type, before |-> fed, g |-> out.g, rand |-> out.rand]

EatAndSpawn(rnd, type, fed) == Spawned(type, fed, SpawnFrom(fed, rnd))

\* The apple step of one snake in ProcessTurn: CheckAppleEaten, then
\* ApplyAppleEffect and SpawnApple when an apple was eaten.  before is the
\* state SpawnApple was called on.
EatStep(g, rnd, snakeID) ==
  IF g.snakes[snakeID].alive /\ CheckAppleEaten(g, snakeID).eaten
    THEN EatAndSpawn(rnd, CheckAppleEaten(g, snakeID).type,
                     ApplyAppleEffect(CheckAppleEaten(g, snakeID).g, snakeID,
                                      CheckAppleEaten(g, snakeID).type))
    ELSE [ate |-> FALSE, type |-> "", before |-> g, g |-> g, rand |-> rnd]

(* ------------------------------------------------------------------ *)
(* State                                                               *)
(* ------------------------------------------------------------------ *)

VARIABLES
  gs,       \* the live GameState (Match.GameState)
  rand,     \* the draws the random source returns next
  last,     \* what the last NewGameState or ProcessTurn call did, step by step
  match,    \* the Match: where Run stands, PlayTurn's stateBeforeMove, the Replay
  bots,     \* the two BotPlayer handles
  calls,    \* per handle, the GetMove call of the turn being played
  readers,  \* per handle, the reader goroutines of GetMove still in Scan
  agents    \* per agent process, the states it has to answer and its output lines

engineVars == <<gs, rand, last>>
matchVars == <<match, bots, calls, readers, agents>>
vars == <<gs, rand, last, match, bots, calls, readers, agents>>

NewSnake(id, body, dir) ==
  [id |-> id, body |-> body, direction |-> dir, alive |-> TRUE, length |-> 3,
   score |-> 0, speedTurns |-> 0, sleepTurns |-> 0, energy |-> StartEnergy,
   deathReason |-> ""]

\* NewGameState before its SpawnApple calls.
BareGameState(width, height, m) ==
  [turn |-> 0, gridWidth |-> width, gridHeight |-> height,
   snakes |-> <<NewSnake(1, <<Position(1, 2), Position(1, 1), Position(1, 0)>>,
                         DirectionDown),
                NewSnake(2, <<Position(width - 2, height - 3),
                              Position(width - 2, height - 2),
                              Position(width - 2, height - 1)>>, DirectionUp)>>,
   apples |-> <<>>, map |-> m, winner |-> 0, gameOver |-> FALSE]

\* n successive SpawnApple calls from g with the tape rnd: the state and tape
\* they leave and, in spawns, each call's state before and after.
RECURSIVE SpawnTimes(_, _, _), SpawnNext(_, _, _)
SpawnTimes(g, rnd, n) ==
  IF n = 0 THEN [g |-> g, rand |-> rnd, spawns |-> <<>>]
  ELSE SpawnNext(g, SpawnFrom(g, rnd), n)

SpawnNext(g, one, n) ==
  [SpawnTimes(one.g, one.rand, n - 1)
     EXCEPT !.spawns = <<[before |-> g, after |-> one.g]>> \o @]

\* NewGameState with two SpawnApple calls only.
NewGameStateTwoApples(width, height, m, rnd) ==
  SpawnTimes(BareGameState(width, height, m), rnd, 2)

\* NewGameState with the random tape rnd.
NewGameState(width, height, m, rnd) ==
  SpawnTimes(BareGameState(width, height, m), rnd, InitialApples)

\* The log of a NewGameState call that gave n.
NewGameLog(n) ==
  [op |-> "NewGameState", pre |-> n.g, move1 |-> "", move2 |-> "",
   mid1 |-> n.g, sub1 |-> n.g, second |-> FALSE, mid2 |-> n.g,
   moved |-> n.g, ate |-> <<FALSE, FALSE>>, eaten |-> <<"", "">>,
   spawns |-> n.spawns, lastMeal |-> <<0, 0>>, lastSleep |-> <<0, 0>>,
   lastSpeed |-> <<0, 0>>]

Bots == 1..2

\* NewBotPlayer: a handle that has not been started.  cmd tells whether
\* bp.cmd holds a launched process (it is nil until Start).
NewBotPlayer(id) ==
  [id |-> id, isRunning |-> FALSE, cmd |-> FALSE, timeoutCount |-> 0,
   errorCount |-> 0]

\* BotPlayer.Start on a handle that is not running, when the process
\* launches.
Start(bp) == [bp EXCEPT !.isRunning = TRUE, !.cmd = TRUE]

\* The zero MoveResponse.  replyTo and line are not fields of the program:
\* they are the turn of the state that the line the move was parsed from
\* answered (0 when the move was not parsed from a line) and that line.
MoveResponse(move, timeout, error, replyTo) ==
  [move |-> move, timeout |-> timeout, error |-> error, replyTo |-> replyTo,
   line |-> <<>>]
NoResponse == MoveResponse("", FALSE, "", 0)

\* No GetMove call.  Of a call: the turn it belongs to, the state it was
\* given, its moveChan, the response it returned, and the handle's timeout
\* count when it was made.
NoCall ==
  [state |-> "idle", turn |-> 0, given |-> <<>>, chan |-> <<>>,
   resp |-> NoResponse, timeoutsAtCall |-> 0, errorsAtCall |-> 0]

\* An agent process: whether it has exited, the states written to its stdin
\* that it has not answered, each with the turn of the GetMove call that
\* wrote it, and the lines on its stdout that no Scan has returned.
NewAgent == [exited |-> FALSE, inbox |-> <<>>, lines |-> <<>>]

\* The Match that NewMatch returns, before Run.
NewMatchRecord ==
  [pc |-> "new", stateBeforeMove |-> <<>>, turns |-> <<>>, winner |-> 0,
   winReason |-> <<>>, totalTurns |-> 0, stats |-> <<>>]

MatchCreated ==
  /\ match = NewMatchRecord
  /\ bots = [b \in Bots |-> NewBotPlayer(b)]
  /\ calls = [b \in Bots |-> NoCall]
  /\ readers = [b \in Bots |-> {}]
  /\ agents = [b \in Bots |-> NewAgent]

\* The engine state that a NewGameState call giving n leaves.
Created(n) ==
  /\ gs = n.g
  /\ rand = n.rand
  /\ last = NewGameLog(n)

Init ==
  /\ \E m \in Maps, tape \in RandTapes :
       Created(NewGameState(GridWidth, GridHeight, m, tape))
  /\ MatchCreated

\* The log of a ProcessTurn call: the state before, the moves, the state
\* after the Move calls of the first sub-step (mid1) and after the whole
\* first sub-step (sub1), whether a second sub-step ran, the same two states
\* of the second sub-step (mid2, moved), and the two apple steps e1 and e2.
TurnLog(pre, move1, move2, mid1, sub1, second, mid2, moved, e1, e2) ==
  [op |-> "ProcessTurn", pre |-> pre, move1 |-> move1, move2 |-> move2,
   mid1 |-> mid1, sub1 |-> sub1, second |-> second, mid2 |-> mid2,
   moved |-> moved, ate |-> <<e1.ate, e2.ate>>, eaten |-> <<e1.type, e2.type>>,
   spawns |->
     (IF e1.ate THEN <<[before |-> e1.before, after |-> e1.g]>> ELSE <<>>)
     \o (IF e2.ate THEN <<[before |-> e2.before, after |-> e2.g]>> ELSE <<>>),
   lastMeal |-> <<0, 0>>, lastSleep |-> <<0, 0>>,
   lastSpeed |-> <<0, 0>>]

\* ProcessTurn from the second apple step on.
TurnEnd(pre, move1, move2, mid1, sub1, second, mid2, moved, e1, e2) ==
  [g |-> FinishTurn(e2.g, e1.ate, e2.ate),
   rand |-> e2.rand,
   log |-> TurnLog(pre, move1, move2, mid1, sub1, second, mid2, moved, e1, e2)]

\* ProcessTurn from the first apple step on.
TurnApples(pre, move1, move2, mid1, sub1, second, mid2, moved, e1) ==
  TurnEnd(pre, move1, move2, mid1, sub1, second, mid2, moved, e1,
          EatStep(e1.g, e1.rand, 2))

\* ProcessTurn after the first sub-step of the movement loop.
TurnSecond(pre, rnd, move1, move2, mid1, sub1, second, mid2, moved) ==
  TurnApples(pre, move1, move2, mid1, sub1, second, mid2, moved,
             EatStep(moved, rnd, 1))

TurnFirst(pre, g0, rnd, move1, move2, mid1, sub1) ==
  TurnSecond(pre, rnd, move1, move2, mid1, sub1, RunsSecond(g0, sub1),
             IF RunsSecond(g0, sub1) THEN StepMoves(sub1, 1, move1, move2) ELSE sub1,
             IF RunsSecond(g0, sub1) THEN SubStep(sub1, 1, move1, move2) ELSE sub1)

\* GameState.ProcessTurn with the random tape rnd: the state and tape it
\* leaves, and the log of its steps.
ProcessTurn(g, rnd, move1, move2) ==
  TurnFirst(g, [g EXCEPT !.turn = @ + 1], rnd, move1, move2,
            StepMoves([g EXCEPT !.turn = @ + 1], 0, move1, move2),
            SubStep([g EXCEPT !.turn = @ + 1], 0, move1, move2))

\* What the log keeps from one turn to the next: per snake, the turn of its
\* latest meal (lastMeal), the turn in which its opponent last ate a SLEEP
\* apple (lastSleep) and the turn in which it last ate a SPEED apple
\* (lastSpeed), 0 when there was none.  prev is the log before the
\* turn that log describes.
History(prev, log) ==
  [log EXCEPT
     !.lastMeal = [i \in 1..2 |->
                     IF log.ate[i] THEN log.pre.turn + 1 ELSE prev.lastMeal[i]],
     !.lastSleep = [i \in 1..2 |->
                      IF log.ate[3 - i] /\ log.eaten[3 - i] = AppleSleep
                        THEN log.pre.turn + 1 ELSE prev.lastSleep[i]],
     !.lastSpeed = [i \in 1..2 |->
                      IF log.ate[i] /\ log.eaten[i] = AppleSpeed
                        THEN log.pre.turn + 1 ELSE prev.lastSpeed[i]]]

\* The engine state after a call that gave r.
Played(r) ==
  /\ gs' = r.g
  /\ rand' = r.rand
  /\ last' = History(last, r.log)

\* One turn of the engine, for any two moves.
Turn ==
  /\ ~gs.gameOver
  /\ gs.turn < MaxTurns
  /\ \E move1, move2 \in Directions : Played(ProcessTurn(gs, rand, move1, move2))
  /\ UNCHANGED matchVars

Next == Turn

Spec == Init /\ [][Next]_vars

(* ------------------------------------------------------------------ *)
(* The late game                                                       *)
(* ------------------------------------------------------------------ *)

\* Moves that lead each snake of NewGameState around a block of two columns
\* and three rows, back to where it started every six turns.
CircleMoves ==
  <<<<DirectionLeft, DirectionUp, DirectionUp,
      DirectionRight, DirectionDown, DirectionDown>>,
    <<DirectionRight, DirectionDown, DirectionDown,
      DirectionLeft, DirectionUp, DirectionUp>>>>
CircleMove(i, turn) == CircleMoves[i][((turn - 1) % 6) + 1]

\* The result of a NewGameState call that gave n, as the result of a turn.
FromNew(n) == [g |-> n.g, rand |-> n.rand, log |-> NewGameLog(n)]

\* The result r of a ProcessTurn call, its log continuing the log prev.
Carry(prev, r) == [r EXCEPT !.log = History(prev, r.log)]

\* n more ProcessTurn calls with the circling moves after the call that
\* gave r, as long as the game is not over.
RECURSIVE Circling(_, _)
Circling(r, n) ==
  IF n = 0 \/ r.g.gameOver THEN r
  ELSE Circling(Carry(r.log, ProcessTurn(r.g, r.rand, CircleMove(1, r.g.turn + 1),
                                         CircleMove(2, r.g.turn + 1))),
                n - 1)

\* The engine state that the call that gave r leaves.
Started(r) ==
  /\ gs = r.g
  /\ rand = r.rand
  /\ last = r.log

\* Random tapes that put the three apples of NewGameState on the second,
\* third and fourth free cell of the neutral zone, all of one type.
LateTapes ==
  {<<Draw(1, rng), Draw(2, rng), Draw(3, rng)>> : rng \in RngDraws}

\* A game without a map that both snakes have circled for PreTurns turns.
LateInit ==
  /\ \E tape \in LateTapes :
       Started(Circling(FromNew(NewGameState(GridWidth, GridHeight, NilMap, tape)),
                        PreTurns))
  /\ MatchCreated

\* One turn of the late game, for any two moves.
LateTurn ==
  /\ ~gs.gameOver
  /\ gs.turn < PreTurns + MaxTurns
  /\ \E move1, move2 \in Directions : Played(ProcessTurn(gs, rand, move1, move2))
  /\ UNCHANGED matchVars

SpecLate == LateInit /\ [][LateTurn]_vars

(* ------------------------------------------------------------------ *)
(* Longer games                                                        *)
(* ------------------------------------------------------------------ *)

LongInit ==
  /\ \E m \in Maps, tape \in RandTapes :
       Created(NewGameState(GridWidth, GridHeight, m, tape))
  /\ MatchCreated

\* One turn of a longer game, for any two moves.
LongTurn ==
  /\ ~gs.gameOver
  /\ gs.turn < LongTurns
  /\ \E move1, move2 \in Directions : Played(ProcessTurn(gs, rand, move1, move2))
  /\ UNCHANGED matchVars

SpecLong == LongInit /\ [][LongTurn]_vars

(* ------------------------------------------------------------------ *)
(* The standard board                                                  *)
(* ------------------------------------------------------------------ *)

\* Tapes for the three SpawnApple calls of NewGameState on the 20x20 board:
\* cell draws from both ends and the middle of rand.Intn's range, and the
\* apple types in every order of NORMAL, SPEED and POISON.
BoardTapes ==
  {<<Draw(i, RngOf(t1)), Draw(j, RngOf(t2)), Draw(k, RngOf(t3))>> :
     i \in {0, 57}, j \in {0, 211}, k \in {3, 399},
     t1 \in {AppleNormal, AppleSpeed}, t2 \in {AppleNormal, ApplePoison},
     t3 \in {AppleGod, AppleSleep}}

BoardInit ==
  /\ \E tape \in BoardTapes : Created(NewGameState(20, 20, NilMap, tape))
  /\ MatchCreated

\* The first turn on the standard board, for any two moves.
BoardTurn ==
  /\ ~gs.gameOver
  /\ gs.turn < 1
  /\ \E move1, move2 \in Directions : Played(ProcessTurn(gs, rand, move1, move2))
  /\ UNCHANGED matchVars

SpecBoard == BoardInit /\ [][BoardTurn]_vars

(* ------------------------------------------------------------------ *)
(* Agent handle (engine/process.go)                                    *)
(* ------------------------------------------------------------------ *)

\* Strings are sequences of one-character strings.
LowerCase ==
  <<"a", "b", "c", "d", "e", "f", "g", "h", "i", "j", "k", "l", "m",
    "n", "o", "p", "q", "r", "s", "t", "u", "v", "w", "x", "y", "z">>
UpperCase ==
  <<"A", "B", "C", "D", "E", "F", "G", "H", "I", "J", "K", "L", "M",
    "N", "O", "P", "Q", "R", "S", "T", "U", "V", "W", "X", "Y", "Z">>

\* strings.ToUpper.
ToUpperChar(c) ==
  IF \E i \in 1..Len(LowerCase) : LowerCase[i] = c
    THEN UpperCase[CHOOSE i \in 1..Len(LowerCase) : LowerCase[i] = c]
    ELSE c
ToUpper(str) == [i \in 1..Len(str) |-> ToUpperChar(str[i])]

\* strings.TrimSpace.
IsSpace(c) == c \in {" ", "\t", "\r"}
TrimSpace(str) ==
  LET kept == {i \in 1..Len(str) : ~IsSpace(str[i])}
  IN IF kept = {} THEN <<>>
     ELSE SubSeq(str, CHOOSE i \in kept : \A j \in kept : i <= j,
                      CHOOSE i \in kept : \A j \in kept : i >= j)

\* A line on an agent's stdout: its text, and what the text is as a JSON
\* document.  json is "none" for a text that is not valid JSON, "object" for
\* an object, whose members are listed in order with the type and (for a
\* string) the content of each value, and else the type of the JSON value.
PlainLine(text) == [text |-> text, json |-> "none", members |-> <<>>]
ValueLine(text, type) == [text |-> text, json |-> type, members |-> <<>>]
Member(key, type, value) == [key |-> key, type |-> type, value |-> value]

\* The text of a JSON object with the given members.
RECURSIVE RenderMembers(_)
RenderMembers(members) ==
  IF members = <<>> THEN <<>>
  ELSE LET m == Head(members)
       IN <<"\"">> \o m.key \o <<"\"", ":">>
            \o (IF m.type = "string" THEN <<"\"">> \o m.value \o <<"\"">> ELSE m.value)
            \o (IF Len(members) > 1 THEN <<",">> ELSE <<>>)
            \o RenderMembers(Tail(members))
ObjectLine(members) ==
  [text |-> <<"{">> \o RenderMembers(members) \o <<"}">>, json |-> "object",
   members |-> members]

\* The name of the one field of GetMove's response struct.
MoveKey == <<"m", "o", "v", "e">>

\* How encoding/json matches an object key with the field: exactly or
\* ignoring case.
KeyMatches(key) == key = MoveKey \/ ToUpper(key) = ToUpper(MoveKey)

\* json.Unmarshal of an object's members into the response struct, from the
\* decoding so far: a string sets Move, a null leaves it, any other value is
\* a type error that is reported once the whole object has been read.
RECURSIVE UnmarshalMembers(_, _)
UnmarshalMembers(members, acc) ==
  IF members = <<>> THEN acc
  ELSE LET m == Head(members)
       IN UnmarshalMembers(Tail(members),
            IF ~KeyMatches(m.key) THEN acc
            ELSE IF m.type = "string" THEN [acc EXCEPT !.move = m.value]
            ELSE IF m.type = "null" THEN acc
            ELSE [acc EXCEPT !.err = TRUE])

\* json.Unmarshal of a trimmed line into the response struct.
Unmarshal(line) ==
  CASE line.json = "none" -> [err |-> TRUE, move |-> <<>>]
    [] line.json = "null" -> [err |-> FALSE, move |-> <<>>]
    [] line.json = "object" ->
         UnmarshalMembers(line.members, [err |-> FALSE, move |-> <<>>])
    [] OTHER -> [err |-> TRUE, move |-> <<>>]

\* response.Move in GetMove: the decoded field, or the upper-cased trimmed
\* line when json.Unmarshal returned an error.
responseMove(line, decoded) ==
  IF decoded.err THEN ToUpper(TrimSpace(line.text)) ELSE decoded.move

Word(d) ==
  CASE d = DirectionUp -> {<<"U", "P">>, <<"U">>, <<"W">>}
    [] d = DirectionDown -> {<<"D", "O", "W", "N">>, <<"D">>, <<"S">>}
    [] d = DirectionLeft -> {<<"L", "E", "F", "T">>, <<"L">>, <<"A">>}
    [] d = DirectionRight -> {<<"R", "I", "G", "H", "T">>, <<"R">>}

\* The switch of parseMove with DOWN for its default.
parseSwitchDown(moveStr) ==
  CASE moveStr \in Word(DirectionUp) -> DirectionUp
    [] moveStr \in Word(DirectionDown) -> DirectionDown
    [] moveStr \in Word(DirectionLeft) -> DirectionLeft
    [] moveStr \in Word(DirectionRight) -> DirectionRight
    [] OTHER -> DirectionDown

\* The switch of parseMove.
parseSwitch(moveStr) ==
  CASE moveStr \in Word(DirectionUp) -> DirectionUp
    [] moveStr \in Word(DirectionDown) -> DirectionDown
    [] moveStr \in Word(DirectionLeft) -> DirectionLeft
    [] moveStr \in Word(DirectionRight) -> DirectionRight
    [] OTHER -> DirectionUp

\* BotPlayer.parseMove.
parseMove(moveStr) == parseSwitch(ToUpper(TrimSpace(moveStr)))

\* The move GetMove's reader makes of a scanned line.
ScannedMove(line) == parseMove(responseMove(line, Unmarshal(line)))

\* The lines the agents of the modelled matches write.
AgentLines ==
  {PlainLine(<<"L", "E", "F", "T">>), PlainLine(<<"R", "I", "G", "H", "T">>)}

\* A getDefaultMove that reads the slot of the opponent.
getDefaultMoveOpponent(bp, gameState) == gameState.snakes[3 - bp.id].direction

\* A getDefaultMove that reads the first slot whatever the handle's ID.
getDefaultMoveFirstSlot(bp, gameState) == gameState.snakes[1].direction

\* BotPlayer.getDefaultMove: Snakes[bp.ID-1] of the state it is given.
getDefaultMove(bp, gameState) == gameState.snakes[bp.id].direction

\* BotPlayer.IsAlive.
IsAlive(bp) == bp.isRunning /\ bp.cmd

\* The JSON object json.Marshal makes of a Snake, named by the json tags.
SnakeJSON(s) ==
  [id |-> s.id, body |-> s.body, direction |-> s.direction, alive |-> s.alive,
   length |-> s.length, score |-> s.score, speed_turns |-> s.speedTurns,
   sleep_turns |-> s.sleepTurns, energy |-> s.energy,
   death_reason |-> s.deathReason]

\* The JSON value of the Map field: null for a nil map.
MapJSON(m) ==
  IF m.nil THEN [null |-> TRUE, width |-> 0, height |-> 0, obstacles |-> <<>>]
  ELSE [null |-> FALSE, width |-> m.width, height |-> m.height,
        obstacles |-> m.obstacles]

\* json.Marshal of a GameState value whose Snakes array is snakes.
Marshal(g, snakes) ==
  [turn |-> g.turn, grid_width |-> g.gridWidth, grid_height |-> g.gridHeight,
   snakes |-> [i \in 1..2 |-> SnakeJSON(snakes[i])], apples |-> g.apples,
   map |-> MapJSON(g.map), winner |-> g.winner, game_over |-> g.gameOver]

\* A ToJSON that keeps the order of the snakes for every agent.
ToJSONSameOrder(g, botID) == Marshal(g, g.snakes)

\* GameState.ToJSON: the document sent to agent botID.  Element 1 of a
\* sequence is index 0 of the JSON array.
ToJSON(g, botID) ==
  Marshal(g, IF botID = 2 THEN <<g.snakes[2], g.snakes[1]>> ELSE g.snakes)

\* A reader goroutine's send on the moveChan of its GetMove call.  The channel
\* has room for one response; once the call has returned nobody receives.
Send(b, r, resp) ==
  IF calls[b].turn = r.turn /\ calls[b].state = "select"
    THEN [calls EXCEPT ![b].chan = <<resp>>]
    ELSE calls

\* A not-running return that reports a timeout.
NotRunningTimeout(bp, gameState) ==
  MoveResponse(getDefaultMove(bp, gameState), TRUE, "bot is not running", 0)

\* What GetMove returns when the handle is not running.
NotRunningResponse(bp, gameState) ==
  MoveResponse(getDefaultMove(bp, gameState), FALSE, "bot is not running", 0)

\* GetMove up to its select: the not-running return, or the reader goroutine
\* and its write of the state line.  The pipe takes the line without
\* blocking; the write fails when the agent has closed its stdin.  ToJSON of
\* a GameState does not fail.
GetMoveEnter(b) ==
  /\ match.pc = "wait"
  /\ calls[b].state = "called"
  /\ IF ~bots[b].isRunning
       THEN /\ calls' = [calls EXCEPT
                           ![b].state = "returned",
                           ![b].resp = NotRunningResponse(bots[b], gs)]
            /\ UNCHANGED <<readers, agents>>
     ELSE IF agents[b].exited
       THEN /\ calls' = [calls EXCEPT
                           ![b].state = "select",
                           ![b].chan = <<MoveResponse(getDefaultMove(bots[b], gs), FALSE,
                                                      "failed to write to bot", 0)>>]
            /\ UNCHANGED <<readers, agents>>
     ELSE /\ calls' = [calls EXCEPT ![b].state = "select"]
          /\ readers' = [readers EXCEPT ![b] = @ \cup {[turn |-> calls[b].turn]}]
          /\ agents' = [agents EXCEPT
                          ![b].inbox = Append(@, [turn |-> calls[b].turn,
                                                  state |-> ToJSON(gs, bots[b].id)])]
  /\ UNCHANGED <<gs, rand, last, match, bots>>

\* A reader goroutine's bp.scanner.Scan returns.  Every reader of a handle
\* scans the one scanner of the handle, unsynchronised: which of the readers
\* blocked in Scan gets the next line is not determined.
ReaderScan(b) ==
  \E r \in readers[b] :
    /\ IF agents[b].lines # <<>>
         THEN /\ calls' = Send(b, r, [MoveResponse(ScannedMove(Head(agents[b].lines).line),
                                                   FALSE, "",
                                                   Head(agents[b].lines).replyTo)
                                        EXCEPT !.line = <<Head(agents[b].lines).line>>])
              /\ agents' = [agents EXCEPT ![b].lines = Tail(@)]
         ELSE /\ agents[b].exited
              /\ calls' = Send(b, r, MoveResponse(getDefaultMove(bots[b], gs), FALSE,
                                                  "failed to read from bot", 0))
              /\ UNCHANGED agents
    /\ readers' = [readers EXCEPT ![b] = @ \ {r}]
    /\ UNCHANGED <<gs, rand, last, match, bots>>

\* GetMove's select takes the response from moveChan.
GetMoveReceive(b) ==
  /\ calls[b].state = "select"
  /\ calls[b].chan # <<>>
  /\ calls' = [calls EXCEPT ![b].state = "returned", ![b].resp = calls[b].chan[1],
                            ![b].chan = <<>>]
  /\ UNCHANGED <<gs, rand, last, match, bots, readers, agents>>

\* A GetMove whose select has no ctx.Done case.
GetMoveNoDeadline(b) ==
  /\ calls[b].state = "select"
  /\ FALSE
  /\ UNCHANGED vars

\* GetMove's select takes ctx.Done: the deadline has passed.
GetMoveTimeout(b) ==
  /\ calls[b].state = "select"
  /\ bots' = [bots EXCEPT ![b].timeoutCount = @ + 1]
  /\ calls' = [calls EXCEPT
                 ![b].state = "returned",
                 ![b].resp = MoveResponse(getDefaultMove(bots[b], gs), TRUE,
                                          "bot timeout", 0)]
  /\ UNCHANGED <<gs, rand, last, match, readers, agents>>

\* BotPlayer.Stop.
Stop(bp) == [bp EXCEPT !.isRunning = FALSE]

(* ------------------------------------------------------------------ *)
(* Agent processes                                                     *)
(* ------------------------------------------------------------------ *)

\* An agent answers the oldest state it has not answered, with any line.
AgentReply(b) ==
  /\ match.pc \in {"loop", "wait"}
  /\ ~agents[b].exited
  /\ agents[b].inbox # <<>>
  /\ \E line \in AgentLines :
       agents' = [agents EXCEPT
                    ![b].inbox = Tail(@),
                    ![b].lines = Append(@, [replyTo |-> Head(agents[b].inbox).turn,
                                            line |-> line])]
  /\ UNCHANGED <<gs, rand, last, match, bots, calls, readers>>

\* An agent process exits instead of answering: its stdin and stdout close.
AgentExit(b) ==
  /\ match.pc \in {"loop", "wait"}
  /\ ~agents[b].exited
  /\ agents[b].inbox # <<>>
  /\ agents' = [agents EXCEPT ![b].exited = TRUE, ![b].inbox = <<>>]
  /\ UNCHANGED <<gs, rand, last, match, bots, calls, readers>>

(* ------------------------------------------------------------------ *)
(* Match orchestrator (engine/match.go)                                *)
(* ------------------------------------------------------------------ *)

\* NewMatch's grid: the dimensions of the map file override the configured
\* ones when both are positive.
NewMatchGrid(width, height, m) ==
  IF ~m.nil /\ m.width > 0 /\ m.height > 0
    THEN [width |-> m.width, height |-> m.height]
    ELSE [width |-> width, height |-> height]

\* GameState.Clone: the copy of the map keeps the obstacles only.
Clone(g) ==
  [g EXCEPT !.map = IF g.map.nil THEN g.map
                    ELSE [nil |-> FALSE, width |-> 0, height |-> 0,
                          obstacles |-> g.map.obstacles]]

\* Run, up to the game loop: both handles start.
RunStart ==
  /\ match.pc = "new"
  /\ \A b \in Bots : ~bots[b].isRunning
  /\ bots' = [b \in Bots |-> Start(bots[b])]
  /\ match' = [match EXCEPT !.pc = "loop"]
  /\ UNCHANGED <<gs, rand, last, calls, readers, agents>>

\* PlayTurn, up to wg.Wait: the clone of the state and the two goroutines
\* that call GetMove with the live state.
PlayTurnBegin ==
  /\ match.pc = "loop"
  /\ gs.turn < MatchTurns
  /\ ~gs.gameOver
  /\ match' = [match EXCEPT !.pc = "wait", !.stateBeforeMove = <<Clone(gs)>>]
  /\ calls' = [b \in Bots |->
                 [state |-> "called", turn |-> gs.turn + 1, given |-> <<gs>>,
                  chan |-> <<>>, resp |-> NoResponse,
                  timeoutsAtCall |-> bots[b].timeoutCount,
                  errorsAtCall |-> bots[b].errorCount]]
  /\ UNCHANGED <<gs, rand, last, bots, readers, agents>>

\* A wg.Wait that one finished goroutine lets through.
wgWaitForOne == \E b \in Bots : calls[b].state = "returned"

\* wg.Wait of PlayTurn returns: both goroutines are done.
wgWait == \A b \in Bots : calls[b].state = "returned"

\* A PlayTurn without the IsAlive checks.
MarkDeadBotsNever(g) == g

\* The snakes of dead handles, marked dead without a reason.
MarkDeadBots(g) ==
  [g EXCEPT !.snakes = [i \in 1..2 |->
     IF ~IsAlive(bots[i]) /\ g.snakes[i].alive
       THEN [g.snakes[i] EXCEPT !.alive = FALSE] ELSE g.snakes[i]]]

\* A turn record that keeps no timeout flag.
TurnRecordNoFlags(turn, gameState, move1, move2, timeout1, timeout2) ==
  [turn |-> turn, gameState |-> gameState, move1 |-> move1, move2 |-> move2,
   timeout1 |-> FALSE, timeout2 |-> FALSE]

\* The TurnRecord literals of PlayTurn and Run.
TurnRecord(turn, gameState, move1, move2, timeout1, timeout2) ==
  [turn |-> turn, gameState |-> gameState, move1 |-> move1, move2 |-> move2,
   timeout1 |-> timeout1, timeout2 |-> timeout2]

\* PlayTurn, from wg.Wait on: the responses, the IsAlive checks, ProcessTurn
\* and the turn record.
PlayTurnEnd ==
  /\ match.pc = "wait"
  /\ wgWait
  /\ Played(ProcessTurn(MarkDeadBots(gs), rand, calls[1].resp.move, calls[2].resp.move))
  /\ match' = [match EXCEPT
                 !.pc = "loop",
                 !.stateBeforeMove = <<>>,
                 !.turns = Append(@, TurnRecord(gs'.turn, match.stateBeforeMove[1],
                                                calls[1].resp.move, calls[2].resp.move,
                                                calls[1].resp.timeout,
                                                calls[2].resp.timeout))]
  /\ calls' = [b \in Bots |-> IF calls[b].state = "returned" THEN NoCall ELSE calls[b]]
  /\ UNCHANGED <<bots, readers, agents>>

\* Match.getDeathDescription.
getDeathDescription(deathReason) ==
  CASE deathReason = "wall" -> "collision with wall"
    [] deathReason = "self" -> "self-collision"
    [] deathReason = "body" -> "collision with larger snake"
    [] deathReason = "head-to-head" -> "head-to-head collision with larger snake"
    [] deathReason = "hunger" -> "hunger"
    [] deathReason = "obstacle" -> "collision with obstacle"
    [] OTHER -> "unknown cause"

\* BotPlayer.GetStats.
GetStats(bp) == [timeout_count |-> bp.timeoutCount, error_count |-> bp.errorCount]

\* A finalizeMatch that copies the engine's winner and never awards the
\* longer snake.
finalizeMatchNoAward(m, g) ==
  [m EXCEPT !.totalTurns = g.turn, !.winner = g.winner,
            !.winReason = IF g.winner = 0 THEN <<"Draw - Max turns reached">>
                          ELSE <<"Bot wins">>,
            !.stats = <<GetStats(bots[1]), GetStats(bots[2])>>]

\* Match.finalizeMatch: the winner and the parts of the win reason.
finalizeMatch(m, g) ==
  LET r1 == getDeathDescription(g.snakes[1].deathReason)
      r2 == getDeathDescription(g.snakes[2].deathReason)
      verdict ==
        CASE g.winner = 0 /\ g.turn >= MatchTurns ->
               IF g.snakes[1].length > g.snakes[2].length
                 THEN [winner |-> 1, reason |-> <<"Bot 1 wins - Longer snake at max turns">>]
               ELSE IF g.snakes[2].length > g.snakes[1].length
                 THEN [winner |-> 2, reason |-> <<"Bot 2 wins - Longer snake at max turns">>]
               ELSE [winner |-> 0, reason |-> <<"Draw - Max turns reached">>]
          [] g.winner = 0 ->
               [winner |-> 0, reason |-> <<"Draw - Both snakes died", r1, r2>>]
          [] g.winner = 1 ->
               [winner |-> 1,
                reason |-> IF ~g.snakes[2].alive
                             THEN <<"Bot 1 wins - Bot 2 died due to", r2>>
                             ELSE <<"Bot 1 wins">>]
          [] g.winner = 2 ->
               [winner |-> 2,
                reason |-> IF ~g.snakes[1].alive
                             THEN <<"Bot 2 wins - Bot 1 died due to", r1>>
                             ELSE <<"Bot 2 wins">>]
          [] OTHER -> [winner |-> g.winner, reason |-> <<>>]
  IN [m EXCEPT !.totalTurns = g.turn, !.winner = verdict.winner,
               !.winReason = verdict.reason,
               !.stats = <<GetStats(bots[1]), GetStats(bots[2])>>]

\* Run, after the game loop: the final record and the verdict.
RunFinish ==
  /\ match.pc = "loop"
  /\ gs.turn >= MatchTurns \/ gs.gameOver
  /\ match' = [finalizeMatch([match EXCEPT
                               !.turns = Append(@, TurnRecord(gs.turn, Clone(gs), "", "",
                                                              FALSE, FALSE))], gs)
                 EXCEPT !.pc = "done"]
  /\ UNCHANGED <<gs, rand, last, bots, calls, readers, agents>>

\* Run returns: the deferred Stop of both handles ends the agent processes.
RunStop ==
  /\ match.pc = "done"
  /\ bots' = [b \in Bots |-> Stop(bots[b])]
  /\ agents' = [b \in Bots |-> [agents[b] EXCEPT !.exited = TRUE, !.inbox = <<>>]]
  /\ match' = [match EXCEPT !.pc = "stopped"]
  /\ UNCHANGED <<gs, rand, last, calls, readers>>

\* A match: the maps and random tapes of the modelled matches.
MatchMap ==
  [nil |-> FALSE, width |-> GridWidth, height |-> MatchGridHeight,
   obstacles |-> <<Position(2, 1)>>]
MatchMaps == {MatchMap}
MatchTapes == {<<Draw(0, RngOf(AppleNormal))>>}

MatchInit ==
  /\ \E m \in MatchMaps, tape \in MatchTapes :
       Created(NewGameState(NewMatchGrid(GridWidth, MatchGridHeight, m).width,
                            NewMatchGrid(GridWidth, MatchGridHeight, m).height,
                            m, tape))
  /\ MatchCreated

MatchNext ==
  \/ RunStart
  \/ PlayTurnBegin
  \/ \E b \in Bots : GetMoveEnter(b)
  \/ \E b \in Bots : ReaderScan(b)
  \/ \E b \in Bots : GetMoveReceive(b)
  \/ \E b \in Bots : GetMoveTimeout(b)
  \/ \E b \in Bots : AgentReply(b)
  \/ \E b \in Bots : AgentExit(b)
  \/ PlayTurnEnd
  \/ RunFinish
  \/ RunStop

SpecMatch == MatchInit /\ [][MatchNext]_vars

\* When PlayTurnEnd can be taken: Run is in wg.Wait and both goroutines are
\* done.  A PlayTurnEnd step always changes match.pc.
PlayTurnEndEnabled == match.pc = "wait" /\ wgWait

\* What the scheduler and the clock guarantee: Run and the goroutines of
\* PlayTurn and GetMove take their next step when they can, and the deadline
\* of a pending GetMove passes.  Nothing is assumed of the agents.  The weak
\* fairness of PlayTurnEnd is written out with its enabling condition.
MatchFairness ==
  /\ WF_vars(RunStart)
  /\ WF_vars(PlayTurnBegin)
  /\ \A b \in Bots : WF_vars(GetMoveEnter(b))
  /\ \A b \in Bots : WF_vars(GetMoveTimeout(b))
  /\ ([]<>~PlayTurnEndEnabled \/ []<><<PlayTurnEnd>>_vars)
  /\ WF_vars(RunFinish)
  /\ WF_vars(RunStop)

SpecMatchLive == MatchInit /\ [][MatchNext]_vars /\ MatchFairness

(* ------------------------------------------------------------------ *)
(* GetMove reading one line                                            *)
(* ------------------------------------------------------------------ *)

Left == <<"l", "e", "f", "t">>
Right == <<"r", "i", "g", "h", "t">>
Bogus == <<"b", "o", "g", "u", "s">>
Five == <<"5">>
Null == <<"n", "u", "l", "l">>

\* Lines that are not JSON.
PlainTexts ==
  {<<"U", "P">>, <<"u">>, <<"w">>, <<"d", "o", "w", "n">>, <<"D">>, <<"s">>,
   <<"L", "e", "f", "t">>, <<"l">>, <<"a">>, Right, <<"R">>, Bogus, <<>>,
   <<" ", "l", "e", "f", "t", " ">>, <<"l", "e", "f", "t", " ", "u", "p">>}

\* The member lists of the JSON objects.
ObjectMembers ==
  {<<Member(MoveKey, "string", Right)>>,
   <<Member(MoveKey, "string", <<"D", "O", "W", "N">>)>>,
   <<Member(MoveKey, "string", Bogus)>>,
   <<Member(MoveKey, "string", <<>>)>>,
   <<>>,
   <<Member(MoveKey, "number", Five)>>,
   <<Member(MoveKey, "null", Null)>>,
   <<Member(<<"M", "o", "v", "e">>, "string", Left)>>,
   <<Member(MoveKey, "string", <<" ", "d", "o", "w", "n", " ">>)>>,
   <<Member(MoveKey, "string", Left), Member(MoveKey, "string", Right)>>,
   <<Member(MoveKey, "string", Left), Member(MoveKey, "number", Five)>>,
   <<Member(<<"x">>, "string", Left)>>}

\* The lines an agent answers with.
ParseLines ==
  {PlainLine(t) : t \in PlainTexts}
    \cup {ValueLine(Null, "null"), ValueLine(Five, "number"),
          ValueLine(<<"\"">> \o Bogus \o <<"\"">>, "string")}
    \cup {ObjectLine(ms) : ms \in ObjectMembers}

\* The first turn of a match, both GetMove calls in their select, each agent
\* having answered the state with one line.
ParseInit ==
  \E m \in MatchMaps, tape \in MatchTapes, line1, line2 \in ParseLines :
    /\ Created(NewGameState(NewMatchGrid(GridWidth, MatchGridHeight, m).width,
                            NewMatchGrid(GridWidth, MatchGridHeight, m).height,
                            m, tape))
    /\ match = [NewMatchRecord EXCEPT !.pc = "wait", !.stateBeforeMove = <<Clone(gs)>>]
    /\ bots = [b \in Bots |-> Start(NewBotPlayer(b))]
    /\ calls = [b \in Bots |->
                 [state |-> "select", turn |-> 1, given |-> <<gs>>, chan |-> <<>>,
                  resp |-> NoResponse, timeoutsAtCall |-> 0, errorsAtCall |-> 0]]
    /\ readers = [b \in Bots |-> {[turn |-> 1]}]
    /\ agents = [b \in Bots |->
                  [exited |-> FALSE, inbox |-> <<>>,
                   lines |-> <<[replyTo |-> 1,
                                line |-> IF b = 1 THEN line1 ELSE line2]>>]]

ParseNext ==
  \/ \E b \in Bots : ReaderScan(b)
  \/ \E b \in Bots : GetMoveReceive(b)

SpecParse == ParseInit /\ [][ParseNext]_vars

(* ------------------------------------------------------------------ *)
(* One handle and its callers                                          *)
(* ------------------------------------------------------------------ *)

\* The number of GetMove calls made on one handle.
MaxCalls == 2

\* BotPlayer.Start on a handle that is not running: a new process with new
\* pipes and a new scanner.  (On a running handle Start returns an error and
\* changes nothing.)  The modelled callers start a handle again only when
\* no reader goroutine of an earlier process is left.
HandleStart(b) ==
  /\ calls[b].state = "idle"
  /\ ~bots[b].isRunning
  /\ readers[b] = {}
  /\ bots' = [bots EXCEPT ![b] = Start(bots[b])]
  /\ agents' = [agents EXCEPT ![b] = NewAgent]
  /\ UNCHANGED <<gs, rand, last, match, calls, readers>>

\* BotPlayer.Stop on a running handle: stdin is closed and the process
\* killed.  (On a handle that is not running Stop changes nothing.)
HandleStop(b) ==
  /\ calls[b].state = "idle"
  /\ bots[b].isRunning
  /\ bots' = [bots EXCEPT ![b] = Stop(bots[b])]
  /\ agents' = [agents EXCEPT ![b].exited = TRUE, ![b].inbox = <<>>]
  /\ UNCHANGED <<gs, rand, last, match, calls, readers>>

\* A caller calls GetMove with the live state.
HandleGetMove(b) ==
  /\ calls[b].state = "idle"
  /\ calls[b].turn < MaxCalls
  /\ calls' = [calls EXCEPT
                 ![b] = [state |-> "called", turn |-> calls[b].turn + 1,
                         given |-> <<gs>>, chan |-> <<>>, resp |-> NoResponse,
                         timeoutsAtCall |-> bots[b].timeoutCount,
                         errorsAtCall |-> bots[b].errorCount]]
  /\ UNCHANGED <<gs, rand, last, match, bots, readers, agents>>

\* The caller has taken the response of its GetMove call.
HandleReturn(b) ==
  /\ calls[b].state = "returned"
  /\ calls' = [calls EXCEPT ![b] = [NoCall EXCEPT !.turn = calls[b].turn]]
  /\ UNCHANGED <<gs, rand, last, match, bots, readers, agents>>

HandleInit ==
  /\ \E tape \in MatchTapes :
       Created(NewGameState(GridWidth, GridHeight, NilMap, tape))
  /\ match = [NewMatchRecord EXCEPT !.pc = "wait"]
  /\ bots = [b \in Bots |-> NewBotPlayer(b)]
  /\ calls = [b \in Bots |-> NoCall]
  /\ readers = [b \in Bots |-> {}]
  /\ agents = [b \in Bots |-> NewAgent]

HandleNext ==
  \/ \E b \in Bots : HandleStart(b)
  \/ \E b \in Bots : HandleStop(b)
  \/ \E b \in Bots : HandleGetMove(b)
  \/ \E b \in Bots : GetMoveEnter(b)
  \/ \E b \in Bots : ReaderScan(b)
  \/ \E b \in Bots : GetMoveReceive(b)
  \/ \E b \in Bots : GetMoveTimeout(b)
  \/ \E b \in Bots : HandleReturn(b)
  \/ \E b \in Bots : AgentReply(b)
  \/ \E b \in Bots : AgentExit(b)

SpecHandle == HandleInit /\ [][HandleNext]_vars

(* ------------------------------------------------------------------ *)
(* A match whose handles are stopped while it runs                     *)
(* ------------------------------------------------------------------ *)

\* Run with an owner of the handles that may call Stop on either of them
\* between two PlayTurn calls.
StopNext ==
  \/ MatchNext
  \/ \E b \in Bots : HandleStop(b)

SpecStop == MatchInit /\ [][StopNext]_vars

(* ------------------------------------------------------------------ *)
(* Properties                                                          *)
(* ------------------------------------------------------------------ *)

InGrid(g, pos) ==
  pos.x >= 0 /\ pos.x < g.gridWidth /\ pos.y >= 0 /\ pos.y < g.gridHeight

Segments(g) == UNION {SeqToSet(g.snakes[i].body) : i \in 1..2}
Obstacles(g) == IF g.map.nil THEN {} ELSE SeqToSet(g.map.obstacles)
AppleCells(g) == {ApplePos(g.apples[i]) : i \in 1..Len(g.apples)}

\* Whether the SpawnApple call e added an apple.
Added(e) == Len(e.after.apples) = Len(e.before.apples) + 1
NewApple(e) == e.after.apples[Len(e.after.apples)]

IsTurn == last.op = "ProcessTurn"

\* C1: every apple a SpawnApple call adds lies inside the grid on a cell
\* that held no snake segment, no obstacle and no apple when it was called,
\* and the call changes nothing else.
C1_SpawnOnFreeCell ==
  \A k \in 1..Len(last.spawns) :
    LET e == last.spawns[k]
    IN \/ e.after = e.before
       \/ /\ Added(e)
          /\ e.after = [e.before EXCEPT !.apples = Append(@, NewApple(e))]
          /\ InGrid(e.before, ApplePos(NewApple(e)))
          /\ ApplePos(NewApple(e)) \notin
               Segments(e.before) \cup Obstacles(e.before) \cup AppleCells(e.before)

\* A turn in which an apple was eaten and its replacement was spawned while
\* other apples lay on the board.
C1_Witness ==
  /\ IsTurn
  /\ \E k \in 1..Len(last.spawns) :
       Added(last.spawns[k]) /\ Len(last.spawns[k].before.apples) > 0

Min3(a, b, c) == Min2(a, Min2(b, c))

\* C3: when all three zones have a free cell, the new apple lies in a zone
\* whose apple count is the least of the three, and in the neutral zone
\* whenever the neutral count is the least.
C3_SpawnInLeastZone ==
  \A k \in 1..Len(last.spawns) :
    LET e == last.spawns[k]
        b == e.before
        n1 == ZoneAppleCount(b, "snake1")
        n2 == ZoneAppleCount(b, "snake2")
        nn == ZoneAppleCount(b, "neutral")
        least == Min3(n1, n2, nn)
        zone == ZoneOf(b, ApplePos(NewApple(e)))
    IN (\A z \in {"snake1", "snake2", "neutral"} : Len(ZonePositions(b, z)) > 0)
         => /\ Added(e)
            /\ ZoneAppleCount(b, zone) = least
            /\ (nn = least => zone = "neutral")

\* The sub-steps the last ProcessTurn ran: the state after the moves of each
\* and the state after its collision checks.
SubSteps ==
  IF ~IsTurn THEN <<>>
  ELSE <<[mid |-> last.mid1, after |-> last.sub1]>>
         \o (IF last.second THEN <<[mid |-> last.mid2, after |-> last.moved]>> ELSE <<>>)

HeadsMeet(g) == GetHead(g.snakes[1]) = GetHead(g.snakes[2])

LostHeadToHead(s) == ~s.alive /\ s.deathReason = "head-to-head"

\* What the head-to-head rule asks of the state after a sub-step.
HeadToHeadRule(after) ==
  LET s1 == after.snakes[1]
      s2 == after.snakes[2]
  IN IF s1.length = s2.length THEN LostHeadToHead(s1) /\ LostHeadToHead(s2)
     ELSE IF s1.length < s2.length THEN LostHeadToHead(s1) /\ s2.alive
     ELSE LostHeadToHead(s2) /\ s1.alive

\* C4 as claimed: whenever both heads share a cell after the moves of a
\* sub-step, the head-to-head rule decides the deaths.
C4_HeadToHeadAlways ==
  \A k \in 1..Len(SubSteps) :
    HeadsMeet(SubSteps[k].mid) => HeadToHeadRule(SubSteps[k].after)

CollisionReasons == {"wall", "self", "body", "obstacle"}

\* C4 amended: whenever both heads share a cell after the moves of a
\* sub-step and neither snake died in that sub-step of a wall, self, body or
\* obstacle collision, equal lengths kill both with reason head-to-head and
\* unequal lengths kill only the shorter, with reason head-to-head.
C4_HeadToHead ==
  \A k \in 1..Len(SubSteps) :
    LET st == SubSteps[k]
    IN (/\ HeadsMeet(st.mid)
        /\ \A i \in 1..2 : st.mid.snakes[i].alive
        /\ \A i \in 1..2 : st.after.snakes[i].deathReason \notin CollisionReasons)
         => HeadToHeadRule(st.after)

\* Heads met with unequal lengths: the shorter died, the longer lives.
C4_Witness ==
  \E k \in 1..Len(SubSteps) :
    LET st == SubSteps[k]
    IN /\ HeadsMeet(st.mid)
       /\ st.after.snakes[1].length # st.after.snakes[2].length
       /\ \E i \in 1..2 : LostHeadToHead(st.after.snakes[i])
                          /\ st.after.snakes[3 - i].alive

MoveOf(i) == IF i = 1 THEN last.move1 ELSE last.move2

\* The snake was asked to reverse in the last turn.
AskedReverse(i) ==
  IsTurn /\ MoveOf(i) = Opposite(last.pre.snakes[i].direction)

\* The snake kept its direction and its first step went that way.
KeptCourse(i) ==
  LET d == last.pre.snakes[i].direction
  IN /\ gs.snakes[i].direction = d
     /\ GetHead(last.mid1.snakes[i]) # GetHead(last.pre.snakes[i])
     /\ GetHead(last.mid1.snakes[i]) = getNextPosition(GetHead(last.pre.snakes[i]), d)

C5_OneCellReverses ==
  \E i \in 1..2 :
    /\ AskedReverse(i)
    /\ Len(last.pre.snakes[i].body) = 1
    /\ gs.snakes[i].direction = MoveOf(i)

\* The snake started the last turn with speed and awake.
Speeding(i) ==
  /\ IsTurn
  /\ last.pre.snakes[i].speedTurns > 0
  /\ last.pre.snakes[i].sleepTurns = 0

\* The head advanced exactly two cells, both in the snake's final direction.
TwoCells(i) ==
  LET d == last.moved.snakes[i].direction
      h0 == GetHead(last.pre.snakes[i])
  IN /\ last.second
     /\ d \in Directions
     /\ GetHead(last.mid1.snakes[i]) = getNextPosition(h0, d)
     /\ GetHead(last.moved.snakes[i]) = getNextPosition(getNextPosition(h0, d), d)
     /\ gs.snakes[i].body[1] = GetHead(last.moved.snakes[i])

\* C6 as claimed: a snake that starts a turn with speed and awake advances
\* exactly two cells in one direction.
C6_SpeedAlwaysTwoCells ==
  \A i \in 1..2 : Speeding(i) => TwoCells(i)

\* C6 amended: a living snake that starts a turn with speed and awake
\* advances exactly two cells in one direction, provided no snake dies in the
\* first sub-step.
C6_SpeedTwoCells ==
  \A i \in 1..2 :
    (/\ Speeding(i)
     /\ \A j \in 1..2 : last.pre.snakes[j].alive /\ last.sub1.snakes[j].alive)
      => TwoCells(i)

C6_Witness ==
  \E i \in 1..2 :
    /\ Speeding(i)
    /\ TwoCells(i)
    /\ last.pre.snakes[3 - i].speedTurns = 0
    /\ ~gs.gameOver

\* C7: a snake that starts a turn frozen keeps its body cells and its
\* direction through ProcessTurn.
C7_FrozenStays ==
  \A i \in 1..2 :
    (IsTurn /\ last.pre.snakes[i].sleepTurns > 0)
      => /\ gs.snakes[i].body = last.pre.snakes[i].body
         /\ gs.snakes[i].direction = last.pre.snakes[i].direction

\* A frozen snake with speed turns left was given a turn to a side.
C7_Witness ==
  \E i \in 1..2 :
    /\ IsTurn
    /\ last.pre.snakes[i].sleepTurns > 0
    /\ last.pre.snakes[i].speedTurns > 0
    /\ MoveOf(i) \notin {last.pre.snakes[i].direction,
                         Opposite(last.pre.snakes[i].direction)}
    /\ gs.snakes[i].body = last.pre.snakes[i].body

(* ------------------------------------------------------------------ *)
(* Properties of the agent protocol                                    *)
(* ------------------------------------------------------------------ *)

\* The records that PlayTurn appended to the replay.
PlayedTurns == {i \in 1..Len(match.turns) : match.turns[i].move1 # ""}

\* The i-th record's move and timeout flag of handle b.
RecordMove(i, b) == IF b = 1 THEN match.turns[i].move1 ELSE match.turns[i].move2
RecordTimeout(i, b) ==
  IF b = 1 THEN match.turns[i].timeout1 ELSE match.turns[i].timeout2

\* The GetMove call of handle b has returned a response that was not parsed
\* from a line, and the agent process is running.
NoLineInTime(b) ==
  /\ calls[b].state = "returned"
  /\ calls[b].resp.replyTo = 0
  /\ ~agents[b].exited

\* C8: when a running agent gives GetMove no line before the deadline, the
\* call returns the current direction of the agent's own snake in the live
\* state with timeout = true, the timeout counter is one higher than at the
\* call, and the handle is still running; the turn is then processed with
\* that move, so every recorded turn with a timeout flag carries the
\* direction the snake had before the turn and the next turn number.
C8_TimeoutFallsBack ==
  /\ \A b \in Bots :
       NoLineInTime(b) =>
         /\ calls[b].resp.timeout
         /\ calls[b].resp.move = gs.snakes[b].direction
         /\ bots[b].timeoutCount = calls[b].timeoutsAtCall + 1
         /\ bots[b].isRunning
  /\ \A i \in PlayedTurns : \A b \in Bots :
       RecordTimeout(i, b) =>
         /\ RecordMove(i, b) = match.turns[i].gameState.snakes[b].direction
         /\ match.turns[i].turn = match.turns[i].gameState.turn + 1
         /\ match.turns[i].turn = i

\* Agent 2 timed out in the first turn, the turn was played with snake 2's
\* direction, which differs from snake 1's, and the game goes on.
C8_Witness ==
  /\ match.pc = "wait"
  /\ gs.turn = 1
  /\ ~gs.gameOver
  /\ match.turns[1].timeout2
  /\ ~match.turns[1].timeout1
  /\ match.turns[1].move2 = DirectionUp
  /\ match.turns[1].gameState.snakes[1].direction = DirectionDown
  /\ bots[2].timeoutCount = 1
  /\ bots[2].isRunning

\* C9: every move that GetMove returns for a turn with timeout = false and
\* no error was parsed from the line the agent wrote in reply to the state
\* of that same turn; a reply to an earlier turn is never a later turn's move.
C9_RepliesAreFresh ==
  \A b \in Bots :
    (calls[b].state = "returned" /\ ~calls[b].resp.timeout /\ calls[b].resp.error = "")
      => calls[b].resp.replyTo = calls[b].turn

\* C10: the live state changes (ProcessTurn runs) only when both GetMove
\* calls of the turn have returned, both having been given the live state as
\* it still is; and the calls of a turn are issued only when no call is
\* pending.
C10_BothResolvedFirst ==
  [][/\ gs' # gs =>
         \A b \in Bots : calls[b].state = "returned" /\ calls[b].given = <<gs>>
     /\ (match.pc # "wait" /\ match'.pc = "wait") =>
         \A b \in Bots : calls[b].state = "idle"]_vars

\* A second turn's calls are out after a first turn in which one call ended
\* by timeout and the other by an answer, and a reader of the first turn is
\* still blocked.
C10_Witness ==
  /\ match.pc = "wait"
  /\ gs.turn = 1
  /\ match.turns[1].timeout1
  /\ ~match.turns[1].timeout2
  /\ \A b \in Bots : calls[b].state = "select" /\ calls[b].given = <<gs>>
  /\ \E r \in readers[1] : r.turn = 1

\* The final record and the verdict of a finished Run.
Finalized ==
  /\ Len(match.turns) = gs.turn + 1
  /\ match.turns[Len(match.turns)] =
       TurnRecord(gs.turn, Clone(gs), "", "", FALSE, FALSE)
  /\ match.totalTurns = gs.turn
  /\ match.winner \in 0..2
  /\ match.winReason # <<>>

\* C11: whatever the agents do, once both handles have started every GetMove
\* call returns, each PlayTurn increases the turn counter by exactly one and
\* appends one record, the turn counter never passes maxTurns, and the turn
\* loop ends: the final record is appended and the verdict is produced.
C11_MatchCompletes ==
  /\ [][(match.pc = "wait" /\ match'.pc # "wait")
          => /\ gs'.turn = gs.turn + 1
             /\ Len(match'.turns) = Len(match.turns) + 1
             /\ match'.pc = "loop"]_vars
  /\ [](gs.turn <= MatchTurns)
  /\ [](match.pc \in {"done", "stopped"} => Finalized)
  /\ \A b \in Bots : (calls[b].state \in {"called", "select"})
                        ~> (calls[b].state = "returned")
  /\ (match.pc = "loop") ~> (match.pc = "done")

\* Run has finished a match in which neither agent ever wrote a line: every
\* call of every turn ended by its deadline.
C11_Witness ==
  /\ match.pc = "done"
  /\ Finalized
  /\ gs.turn > 1
  /\ \A b \in Bots : /\ bots[b].timeoutCount = gs.turn
                      /\ agents[b].lines = <<>>
                      /\ ~agents[b].exited

(* ------------------------------------------------------------------ *)
(* Properties of the verdict                                           *)
(* ------------------------------------------------------------------ *)

\* The snake with strictly more cells in its length field, 0 on a tie.
Longer(g) ==
  IF g.snakes[1].length > g.snakes[2].length THEN 1
  ELSE IF g.snakes[2].length > g.snakes[1].length THEN 2
  ELSE 0

\* C12: after every ProcessTurn, game_over is true exactly when at least one
\* snake is dead; with exactly one snake dead the winner is the other one;
\* with both dead the winner is the strictly longer snake, or 0 when the
\* lengths are equal; with both alive the winner is 0.
C12_Verdict ==
  IsTurn =>
    /\ gs.gameOver <=> (\E i \in 1..2 : ~gs.snakes[i].alive)
    /\ \A i \in 1..2 :
         (~gs.snakes[i].alive /\ gs.snakes[3 - i].alive) => gs.winner = 3 - i
    /\ (\A i \in 1..2 : ~gs.snakes[i].alive) => gs.winner = Longer(gs)
    /\ (\A i \in 1..2 : gs.snakes[i].alive) => gs.winner = 0

\* Both snakes died in the last turn with unequal lengths, and the longer
\* one is the winner.
C12_Witness ==
  /\ IsTurn
  /\ \A i \in 1..2 : last.pre.snakes[i].alive /\ ~gs.snakes[i].alive
  /\ gs.snakes[1].length # gs.snakes[2].length
  /\ gs.gameOver
  /\ gs.winner = Longer(gs)

\* The win reason of a match that reached maxTurns with the winner w.
MaxTurnsReason(w) ==
  CASE w = 1 -> <<"Bot 1 wins - Longer snake at max turns">>
    [] w = 2 -> <<"Bot 2 wins - Longer snake at max turns">>
    [] OTHER -> <<"Draw - Max turns reached">>

\* Run's loop ended with the turn counter at maxTurns and both snakes alive.
EndedAtMaxTurns ==
  /\ match.pc \in {"done", "stopped"}
  /\ gs.turn >= MatchTurns
  /\ \A i \in 1..2 : gs.snakes[i].alive

\* C13: when the turn loop ends at maxTurns with both snakes alive, the
\* replay's winner is the snake with the greater length, with the win reason
\* of the max-turns case, and 0 (a draw at max turns) when the lengths are
\* equal.
C13_MaxTurnsVerdict ==
  EndedAtMaxTurns =>
    /\ match.winner = Longer(gs)
    /\ match.winReason = MaxTurnsReason(Longer(gs))

\* A match went to maxTurns with both snakes alive and snake 2 the longer.
C13_Witness ==
  /\ EndedAtMaxTurns
  /\ gs.snakes[2].length > gs.snakes[1].length
  /\ gs.winner = 0
  /\ match.winner = 2

(* ------------------------------------------------------------------ *)
(* Properties of move parsing                                          *)
(* ------------------------------------------------------------------ *)

\* The direction a token names, ignoring case, and UP when it names none.
Resolve(token) ==
  IF \E d \in Directions : ToUpper(token) \in Word(d)
    THEN CHOOSE d \in Directions : ToUpper(token) \in Word(d)
    ELSE DirectionUp

\* The members of an object line whose key is k, and whose key is k when
\* case is ignored.
Keyed(line, k) == {i \in 1..Len(line.members) : line.members[i].key = k}
KeyedFold(line, k) ==
  {i \in 1..Len(line.members) : ToUpper(line.members[i].key) = ToUpper(k)}

\* The string value of the last member among ms, empty when there is none
\* or when it is not a string.
LastString(line, ms) ==
  IF ms = {} THEN <<>>
  ELSE LET m == line.members[CHOOSE i \in ms : \A j \in ms : i >= j]
       IN IF m.type = "string" THEN m.value ELSE <<>>

\* The token as claimed: the "move" value of a JSON object, else the whole
\* trimmed line.
ClaimedToken(line) ==
  IF line.json = "object" THEN LastString(line, Keyed(line, MoveKey))
  ELSE TrimSpace(line.text)

\* The responses that were parsed from a line, with the line.
ParsedResponses ==
  {calls[b].resp : b \in {c \in Bots : calls[c].resp.line # <<>>}}
    \cup {calls[b].chan[1] : b \in {c \in Bots : calls[c].chan # <<>>
                                                  /\ calls[c].chan[1].line # <<>>}}

AmendedToken(line) ==
  IF /\ line.json = "object"
     /\ \A i \in KeyedFold(line, MoveKey) : line.members[i].type \in {"string", "null"}
    THEN LET strings == {i \in KeyedFold(line, MoveKey) : line.members[i].type = "string"}
         IN TrimSpace(LastString(line, strings))
    ELSE TrimSpace(line.text)

ShowsSnake(j, s) ==
  /\ j.id = s.id /\ j.body = s.body /\ j.direction = s.direction
  /\ j.alive = s.alive /\ j.length = s.length /\ j.score = s.score
  /\ j.speed_turns = s.speedTurns /\ j.sleep_turns = s.sleepTurns
  /\ j.energy = s.energy /\ j.death_reason = s.deathReason

\* The document doc carries every field of g other than the snakes.
ShowsBoard(doc, g) ==
  /\ doc.turn = g.turn /\ doc.grid_width = g.gridWidth
  /\ doc.grid_height = g.gridHeight /\ doc.apples = g.apples
  /\ doc.winner = g.winner /\ doc.game_over = g.gameOver
  /\ doc.map.null = g.map.nil
  /\ ~g.map.nil => /\ doc.map.width = g.map.width
                   /\ doc.map.height = g.map.height
                   /\ doc.map.obstacles = g.map.obstacles

\* The states written to agent b by the GetMove call of the turn being
\* played and not answered yet.
SentNow(b) ==
  {agents[b].inbox[k].state :
     k \in {i \in 1..Len(agents[b].inbox) :
              match.pc = "wait" /\ agents[b].inbox[i].turn = calls[b].turn}}

\* C15: the state serialized for agent 2 has snake 2 at index 0 and snake 1
\* at index 1 of the snakes array, the state serialized for agent 1 has
\* snake 1 at index 0 and snake 2 at index 1, and every other field equals
\* the live state's.
C15_OwnSnakeFirst ==
  \A b \in Bots : \A doc \in SentNow(b) :
    /\ Len(doc.snakes) = 2
    /\ ShowsSnake(doc.snakes[1], gs.snakes[b])
    /\ ShowsSnake(doc.snakes[2], gs.snakes[3 - b])
    /\ ShowsBoard(doc, gs)

\* In the second turn both agents hold the state of the turn: agent 2 sees
\* snake 2 first, agent 1 sees snake 1 first.
C15_Witness ==
  /\ gs.turn = 1
  /\ \A b \in Bots : \E doc \in SentNow(b) :
       /\ doc.turn = 1
       /\ doc.snakes[1].id = b
       /\ doc.snakes[2].id = 3 - b
       /\ doc.snakes[1].body # doc.snakes[2].body

(* ------------------------------------------------------------------ *)
(* Properties of energy, length and score                              *)
(* ------------------------------------------------------------------ *)

\* Snake i ate an apple in the last turn.
Ate(i) == IsTurn /\ last.ate[i]

\* C16: whenever a living snake eats an apple of any type in a turn, its
\* energy after that turn is exactly 60, whatever its energy was before and
\* whatever the apple type: no depletion is applied in the eating turn.
C16_EatingRestoresEnergy ==
  \A i \in 1..2 : Ate(i) => gs.snakes[i].energy = 60 /\ gs.snakes[i].alive

\* A snake with less than full energy ate an apple that is not a NORMAL one.
C16_Witness ==
  \E i \in 1..2 :
    /\ Ate(i)
    /\ last.pre.snakes[i].energy < 60
    /\ last.eaten[i] \in AppleTypes \ {AppleNormal}
    /\ gs.snakes[i].energy = 60

\* Snake i came through the movement of the last turn alive and did not eat.
Fasted(i) == IsTurn /\ last.moved.snakes[i].alive /\ ~last.ate[i]

\* Snake i has not eaten since the game began.
NeverAte(i) == last.lastMeal[i] = 0

\* C17: a living snake that does not eat in a turn loses exactly one energy
\* in that turn, frozen or not; a snake whose energy reaches 0 dies in that
\* turn with reason hunger; hence every living snake has energy between 1
\* and 60, and a snake that never eats has 60 less the number of turns
\* played while it lives and is dead by the end of the 60th turn.
C17_Hunger ==
  \A i \in 1..2 :
    /\ Fasted(i) => gs.snakes[i].energy = last.pre.snakes[i].energy - 1
    /\ (Fasted(i) /\ gs.snakes[i].energy <= 0)
         => /\ gs.snakes[i].energy = 0
            /\ ~gs.snakes[i].alive
            /\ gs.snakes[i].deathReason = "hunger"
    /\ gs.snakes[i].alive => gs.snakes[i].energy \in 1..60
    /\ (NeverAte(i) /\ gs.snakes[i].alive) => gs.snakes[i].energy = 60 - gs.turn
    /\ (NeverAte(i) /\ gs.turn >= 60) => ~gs.snakes[i].alive

\* In the 60th turn a snake that never ate died of hunger at energy 0,
\* while its opponent had eaten in the turn before and lives on.
C17_Witness ==
  \E i \in 1..2 :
    /\ IsTurn
    /\ gs.turn = 60
    /\ NeverAte(i)
    /\ last.pre.snakes[i].alive /\ last.pre.snakes[i].energy = 1
    /\ gs.snakes[i].energy = 0
    /\ ~gs.snakes[i].alive /\ gs.snakes[i].deathReason = "hunger"
    /\ last.lastMeal[3 - i] = 59
    /\ gs.snakes[3 - i].alive /\ gs.snakes[3 - i].energy = 59

\* A frozen snake lost one energy in the last turn.
C17_FrozenFasts ==
  \E i \in 1..2 :
    /\ Fasted(i)
    /\ last.pre.snakes[i].sleepTurns > 0
    /\ gs.snakes[i].energy = last.pre.snakes[i].energy - 1

\* Snake i ate a POISON apple in the last turn.
AtePoison(i) == Ate(i) /\ last.eaten[i] = ApplePoison

\* C18: in every reachable state each snake has length >= 1 and score >= 0;
\* a POISON apple eaten at length 1 leaves the length and the body at one
\* cell, and a POISON apple eaten at score 0 leaves the score at 0.
C18_Floors ==
  \A i \in 1..2 :
    /\ gs.snakes[i].length >= 1
    /\ gs.snakes[i].score >= 0
    /\ (AtePoison(i) /\ last.pre.snakes[i].length = 1)
         => gs.snakes[i].length = 1 /\ Len(gs.snakes[i].body) = 1
    /\ (AtePoison(i) /\ last.pre.snakes[i].score = 0) => gs.snakes[i].score = 0

\* A snake of length 1 and score 0 ate a POISON apple.
C18_Witness ==
  \E i \in 1..2 :
    /\ AtePoison(i)
    /\ last.pre.snakes[i].length = 1
    /\ last.pre.snakes[i].score = 0
    /\ gs.snakes[i].length = 1
    /\ gs.snakes[i].score = 0

\* C19: after NewGameState and after every ProcessTurn, the number of cells
\* in the body of each snake equals its length field, whatever the moves and
\* the apples eaten.
C19_BodyIsLength ==
  \A i \in 1..2 : Len(gs.snakes[i].body) = gs.snakes[i].length

\* A snake that had grown by a GOD apple ate a POISON apple: its body and
\* its length field agree on more than the three cells it started with.
C19_Witness ==
  \E i \in 1..2 :
    /\ AtePoison(i)
    /\ last.pre.snakes[i].length = 6
    /\ gs.snakes[i].length = 5
    /\ Len(gs.snakes[i].body) = 5

(* ------------------------------------------------------------------ *)
(* Properties of the timed effects                                     *)
(* ------------------------------------------------------------------ *)

\* The last turn was one of the five turns that follow the turn in which the
\* opponent of snake i last ate a SLEEP apple.
WithinFiveOfSleep(i) ==
  /\ IsTurn
  /\ last.lastSleep[i] > 0
  /\ gs.turn \in (last.lastSleep[i] + 1)..(last.lastSleep[i] + 5)

\* C20: when a snake eats a SLEEP apple in turn T, its opponent takes no step
\* in any of the turns T+1 .. T+5 that are played.
C20_SleepFreezesFive ==
  \A i \in 1..2 :
    WithinFiveOfSleep(i) => gs.snakes[i].body = last.pre.snakes[i].body

\* The opponent of a snake that ate a SLEEP apple in turn T stood still in
\* the turns up to T+4 and moved in turn T+5.
C20_MovesInFifthTurn ==
  \E i \in 1..2 :
    /\ WithinFiveOfSleep(i)
    /\ gs.turn = last.lastSleep[i] + 5
    /\ last.pre.snakes[i].alive
    /\ last.pre.snakes[i].sleepTurns = 0
    /\ gs.snakes[i].body # last.pre.snakes[i].body

\* The last turn was one of the five turns that follow the turn in which
\* snake i last ate a SPEED apple.
WithinFiveOfSpeed(i) ==
  /\ IsTurn
  /\ last.lastSpeed[i] > 0
  /\ gs.turn \in (last.lastSpeed[i] + 1)..(last.lastSpeed[i] + 5)

\* Snake i was alive and awake when the last turn began, and no snake died
\* in the first sub-step.
FreeToRun(i) ==
  /\ last.pre.snakes[i].alive
  /\ last.pre.snakes[i].sleepTurns = 0
  /\ \A j \in 1..2 : last.pre.snakes[j].alive => last.sub1.snakes[j].alive

\* Snake i took two steps in the last turn.
SteppedTwice(i) ==
  /\ last.second
  /\ GetHead(last.mid1.snakes[i]) # GetHead(last.pre.snakes[i])
  /\ GetHead(last.mid2.snakes[i]) # GetHead(last.sub1.snakes[i])

\* C21: when a snake eats a SPEED apple in turn T, it takes two steps in
\* each of the turns T+1 .. T+5 that are played, unless it is frozen or a
\* death in the first sub-step stops the turn.
C21_SpeedLastsFive ==
  \A i \in 1..2 :
    (WithinFiveOfSpeed(i) /\ FreeToRun(i)) => SteppedTwice(i)

\* A snake that ate a SPEED apple in turn T took two steps in turn T+4 and
\* a single step in turn T+5.
C21_OneStepInFifthTurn ==
  \E i \in 1..2 :
    /\ WithinFiveOfSpeed(i)
    /\ gs.turn = last.lastSpeed[i] + 5
    /\ FreeToRun(i)
    /\ last.pre.snakes[i].speedTurns = 0
    /\ ~last.second
    /\ GetHead(gs.snakes[i]) # GetHead(last.pre.snakes[i])

(* ------------------------------------------------------------------ *)
(* Properties of the new game                                          *)
(* ------------------------------------------------------------------ *)

\* The state is the one NewGameState returned for a 20x20 grid and no map.
FreshBoard ==
  /\ last.op = "NewGameState"
  /\ gs.gridWidth = 20
  /\ gs.gridHeight = 20
  /\ gs.map.nil

\* A snake as NewGameState makes it, apart from its body and direction.
FreshSnake(s) ==
  /\ s.alive
  /\ s.length = 3
  /\ Len(s.body) = 3
  /\ s.energy = 60
  /\ s.score = 0
  /\ s.speedTurns = 0
  /\ s.sleepTurns = 0
  /\ s.deathReason = ""

\* C22: NewGameState on a 20x20 grid with no map returns turn 0, game_over
\* false, winner 0, two fresh snakes, snake 1 with head (1,2) heading DOWN
\* and snake 2 with head (18,17) heading UP, and exactly 3 apples on pairwise
\* distinct cells of the grid that no snake segment occupies.
C22_FreshBoard ==
  FreshBoard =>
    /\ gs.turn = 0
    /\ ~gs.gameOver
    /\ gs.winner = 0
    /\ \A i \in 1..2 : FreshSnake(gs.snakes[i]) /\ gs.snakes[i].id = i
    /\ GetHead(gs.snakes[1]) = Position(1, 2)
    /\ gs.snakes[1].direction = DirectionDown
    /\ GetHead(gs.snakes[2]) = Position(18, 17)
    /\ gs.snakes[2].direction = DirectionUp
    /\ Len(gs.apples) = 3
    /\ Cardinality(AppleCells(gs)) = 3
    /\ \A c \in AppleCells(gs) : InGrid(gs, c) /\ c \notin Segments(gs)

\* A fresh 20x20 board whose three apples are of three types and lie in
\* three different rows.
C22_Witness ==
  /\ FreshBoard
  /\ Len(gs.apples) = 3
  /\ Cardinality({gs.apples[i].type : i \in 1..3}) = 3
  /\ Cardinality({gs.apples[i].y : i \in 1..3}) = 3

(* ------------------------------------------------------------------ *)
(* Properties of the replay                                            *)
(* ------------------------------------------------------------------ *)

\* Run has left the turn loop and appended its final record.
LoopLeft == match.pc \in {"done", "stopped"}

\* The last record of the replay.
FinalRecord == match.turns[Len(match.turns)]

\* One record per played turn, in turn order, then one final record with
\* empty moves and no timeout flags, total_turns + 1 records in all.
ReplayShape ==
  /\ match.totalTurns = gs.turn
  /\ Len(match.turns) = match.totalTurns + 1
  /\ \A k \in 1..match.totalTurns : match.turns[k].turn = k
  /\ FinalRecord.turn = gs.turn
  /\ FinalRecord.move1 = ""
  /\ FinalRecord.move2 = ""
  /\ ~FinalRecord.timeout1
  /\ ~FinalRecord.timeout2

\* C23: when Run has left the turn loop, the replay holds one record per
\* played turn, in turn order, followed by exactly one final record with
\* empty moves and no timeout flags whose game state equals the final live
\* state.
C23_FinalRecord ==
  LoopLeft => (ReplayShape /\ FinalRecord.gameState = gs)

\* The replay of a finished match has the shape of C23, and its final record
\* differs from the live state in nothing but the width and height of the
\* map.
C23_FinalRecordLosesMapSize ==
  /\ LoopLeft
  /\ ReplayShape
  /\ gs.turn = MatchTurns
  /\ FinalRecord.gameState # gs
  /\ [FinalRecord.gameState EXCEPT !.map = gs.map] = gs
  /\ FinalRecord.gameState.map.obstacles = gs.map.obstacles

(* ------------------------------------------------------------------ *)
(* Properties of the agent handle                                      *)
(* ------------------------------------------------------------------ *)

\* The GetMove call of agent b has returned a response that reports a fault.
Faulted(b) == calls[b].state = "returned" /\ calls[b].resp.error # ""

\* C24: after a GetMove call that hit an agent fault (deadline expiry,
\* failed write, failed or end-of-stream read, handle not running), the
\* agent's timeout count or its error count, as GetStats shows them, is one
\* higher than before the call.
C24_FaultsTallied ==
  \A b \in Bots :
    Faulted(b) =>
      \/ GetStats(bots[b]).timeout_count = calls[b].timeoutsAtCall + 1
      \/ GetStats(bots[b]).error_count = calls[b].errorsAtCall + 1

\* A GetMove call returned the fallback move for a failed read, and neither
\* counter of the handle moved.
C24_ReadFailureUncounted ==
  \E b \in Bots :
    /\ Faulted(b)
    /\ calls[b].resp.error = "failed to read from bot"
    /\ ~calls[b].resp.timeout
    /\ bots[b].timeoutCount = calls[b].timeoutsAtCall
    /\ bots[b].errorCount = calls[b].errorsAtCall

\* C25: a handle that has been started and whose IsAlive has become false,
\* which only Stop brings about, is not alive after any later Start, Stop or
\* GetMove call.
C25_NoRestart ==
  [][\A b \in Bots :
       (bots[b].cmd /\ ~IsAlive(bots[b])) => ~IsAlive(bots'[b])]_vars

\* A stopped handle on which a GetMove call has returned the not-running
\* error, with no reader goroutine left: Start is about to be called again.
C25_StoppedHandle ==
  \E b \in Bots :
    /\ bots[b].cmd
    /\ ~IsAlive(bots[b])
    /\ calls[b].state = "idle"
    /\ calls[b].turn = MaxCalls
    /\ readers[b] = {}

\* C26: GetMove on a handle that is not running returns at once, without
\* writing to or reading from the agent, the snake's current direction with
\* an error set and timeout false, and leaves the timeout counter unchanged.
C26_NotRunningReturns ==
  [][\A b \in Bots :
       (calls[b].state = "called" /\ ~bots[b].isRunning /\ calls'[b] # calls[b])
         => /\ calls'[b].state = "returned"
            /\ calls'[b].resp.move = gs.snakes[b].direction
            /\ calls'[b].resp.error # ""
            /\ ~calls'[b].resp.timeout
            /\ bots'[b].timeoutCount = calls[b].timeoutsAtCall
            /\ agents'[b] = agents[b]
            /\ readers'[b] = readers[b]]_vars

\* A GetMove call on a stopped handle has returned the snake's direction
\* with the not-running error, after an earlier call on the same handle
\* ended by its deadline.
C26_Witness ==
  \E b \in Bots :
    /\ calls[b].state = "returned"
    /\ calls[b].resp.error = "bot is not running"
    /\ calls[b].resp.move = gs.snakes[b].direction
    /\ ~bots[b].isRunning
    /\ agents[b].exited
    /\ bots[b].timeoutCount = 1

(* ------------------------------------------------------------------ *)
(* Properties of the cells the snakes occupy                           *)
(* ------------------------------------------------------------------ *)

\* A turn can start in this state.
TurnStarts == ~gs.gameOver

\* The body has a cell that two of its segments share.
Stacked(body) == \E k, l \in 1..Len(body) : k < l /\ body[k] = body[l]

\* Segments of one body that share a cell are all copies of the tail cell at
\* the end of the body.
OnlyTailCopies(body) ==
  \A k, l \in 1..Len(body) :
    (k < l /\ body[k] = body[l]) => \A m \in k..Len(body) : body[m] = body[Len(body)]

\* C27 as claimed: at the start of every turn no two snake segments occupy
\* the same cell, of one snake or of both.
C27_NoSharedCell ==
  TurnStarts =>
    /\ \A i \in 1..2 : ~Stacked(gs.snakes[i].body)
    /\ SeqToSet(gs.snakes[1].body) \cap SeqToSet(gs.snakes[2].body) = {}

\* C27 amended: at the start of every turn no cell holds segments of both
\* snakes, and segments of one snake share a cell only when they are the
\* copies of its tail cell that growth appended at the end of its body.
C27_OnlyTailCopiesShare ==
  TurnStarts =>
    /\ \A i \in 1..2 : OnlyTailCopies(gs.snakes[i].body)
    /\ SeqToSet(gs.snakes[1].body) \cap SeqToSet(gs.snakes[2].body) = {}

\* A turn starts with a snake that ate a GOD apple in the turn before and
\* whose last four segments lie on one cell, next to the other snake.
C27_Witness ==
  \E i \in 1..2 :
    /\ TurnStarts
    /\ IsTurn
    /\ last.ate[i]
    /\ last.eaten[i] = AppleGod
    /\ Len(gs.snakes[i].body) = 6
    /\ Cardinality(SeqToSet(gs.snakes[i].body)) = 3
    /\ \E c \in SeqToSet(gs.snakes[3 - i].body) :
         manhattanDistance(c, GetHead(gs.snakes[i])) = 1

(* ------------------------------------------------------------------ *)
(* Properties of the reads of the live state                           *)
(* ------------------------------------------------------------------ *)

\* In this step the reader goroutine r of agent b found the stream closed
\* and called getDefaultMove, which reads Snakes[b].Direction of the live
\* state.
ReadsLiveState(b, r) ==
  /\ r \in readers[b]
  /\ r \notin readers'[b]
  /\ agents[b].lines = <<>>
  /\ agents[b].exited

\* C28: every read of the live state by an agent-query task, the reader
\* goroutine of a GetMove call included, happens before ProcessTurn starts
\* to mutate the state in the turn the task was started for.
C28_ReadsBeforeMutation ==
  [][\A b \in Bots : \A r \in readers[b] :
       ReadsLiveState(b, r) => gs.turn < r.turn]_vars

\* The reader goroutine of a turn that ProcessTurn has already played is
\* still blocked in Scan, the agent has exited and the next turn's calls are
\* in flight: the reader's read of the live state is about to happen.
C28_StaleReaderAtEndOfStream ==
  \E b \in Bots : \E r \in readers[b] :
    /\ r.turn <= gs.turn
    /\ agents[b].exited
    /\ agents[b].lines = <<>>
    /\ match.pc = "wait"

(* ------------------------------------------------------------------ *)
(* Properties of PlayTurn                                              *)
(* ------------------------------------------------------------------ *)

\* The step is the end of a PlayTurn call: the IsAlive checks, ProcessTurn
\* and the turn record.
PlayTurnEnds == match.pc = "wait" /\ match'.pc = "loop"

\* C29: if a handle reports not alive once both moves are collected, its
\* snake is dead before ProcessTurn runs and its death reason is left as it
\* was; the snake does not move in the turn, and after the turn game_over
\* is true.
C29_DeadHandleEndsGame ==
  [][\A i \in Bots :
       (PlayTurnEnds /\ ~IsAlive(bots[i]))
         => /\ ~last'.pre.snakes[i].alive
            /\ last'.pre.snakes[i].deathReason = gs.snakes[i].deathReason
            /\ gs'.snakes[i].body = gs.snakes[i].body
            /\ gs'.snakes[i].direction = gs.snakes[i].direction
            /\ gs'.gameOver]_vars

\* The second turn was played with the handle of a living snake stopped:
\* the snake was dead without a reason when ProcessTurn ran, it stayed where
\* it was, and the other snake won.
C29_Witness ==
  \E i \in Bots :
    /\ match.pc = "loop"
    /\ gs.turn = 2
    /\ ~IsAlive(bots[i])
    /\ match.turns[2].gameState.snakes[i].alive
    /\ ~last.pre.snakes[i].alive
    /\ gs.snakes[i].deathReason = ""
    /\ gs.snakes[i].body = match.turns[2].gameState.snakes[i].body
    /\ gs.gameOver
    /\ gs.winner = 3 - i

(* ------------------------------------------------------------------ *)
(* Properties of the verdict                                           *)
(* ------------------------------------------------------------------ *)

\* The match ended with a turn in which both snakes died with equal
\* lengths: the engine's winner is 0.
BothDiedEqual ==
  /\ LoopLeft
  /\ gs.gameOver
  /\ \A i \in 1..2 : last.pre.snakes[i].alive /\ ~gs.snakes[i].alive
  /\ gs.snakes[1].length = gs.snakes[2].length
  /\ gs.winner = 0

\* C30: whenever both snakes die in the last played turn with equal lengths,
\* the verdict is a draw whose reason cites both snakes' death reasons, on
\* every terminal turn, turn number maxTurns included.
C30_DoubleDeathDraw ==
  BothDiedEqual =>
    /\ match.winner = 0
    /\ match.winReason =
         <<"Draw - Both snakes died",
           getDeathDescription(gs.snakes[1].deathReason),
           getDeathDescription(gs.snakes[2].deathReason)>>

\* Both snakes ran into the wall in turn number maxTurns with equal lengths
\* and the verdict's reason is the one of a match that ran out of turns.
C30_DoubleDeathAtMaxTurns ==
  /\ BothDiedEqual
  /\ gs.turn = MatchTurns
  /\ \A i \in 1..2 : gs.snakes[i].deathReason = "wall"
  /\ match.winner = 0
  /\ match.winReason = <<"Draw - Max turns reached">>

(* ------------------------------------------------------------------ *)
(* Properties of the turn records                                      *)
(* ------------------------------------------------------------------ *)

\* The record that the PlayTurn call ending in this step appends.
NewRecord == match'.turns[Len(match'.turns)]

\* The records of the replay keep their game states through the step.
RecordsKept ==
  \A k \in 1..Len(match.turns) :
    /\ k <= Len(match'.turns)
    /\ match'.turns[k].gameState = match.turns[k].gameState

\* C31: the game state stored in each turn record equals, field for field,
\* the map with its width and height included, the live state as it was
\* immediately before that turn's moves were applied, and keeps that value
\* after every later turn.
C31_RecordIsPreTurnState ==
  [][/\ PlayTurnEnds => NewRecord.gameState = gs
     /\ RecordsKept]_vars

\* The record of the first turn, kept through the second turn, equals the
\* state before the first turn in everything but the width and height of
\* the map, which are 0 in the record.
C31_RecordLosesMapSize ==
  /\ match.pc = "loop"
  /\ gs.turn = 2
  /\ Len(match.turns) = 2
  /\ match.turns[1].gameState.turn = 0
  /\ match.turns[1].gameState.map.width = 0
  /\ match.turns[1].gameState.map.height = 0
  /\ gs.map.width = GridWidth
  /\ match.turns[2].gameState = Clone(last.pre)
  /\ [match.turns[2].gameState EXCEPT !.map = gs.map] = last.pre

(* ------------------------------------------------------------------ *)
(* Properties of the collision checks                                  *)
(* ------------------------------------------------------------------ *)

\* The segments of a body behind its head.
BehindHead(body) == {body[k] : k \in 2..Len(body)}

\* The death that the positions after the moves of a sub-step ask of snake
\* i, "" when they ask none: wall, else self, else body, else obstacle.
DeathAsked(mid, i) ==
  LET head == GetHead(mid.snakes[i])
  IN IF ~InGrid(mid, head) THEN "wall"
     ELSE IF head \in BehindHead(mid.snakes[i].body) THEN "self"
     ELSE IF head \in BehindHead(mid.snakes[3 - i].body) THEN "body"
     ELSE IF head \in Obstacles(mid) THEN "obstacle"
     ELSE ""

\* C32: after both snakes have moved in a sub-step, each living snake dies
\* of the first of wall, self, body and obstacle that its head's cell asks
\* for, whatever the lengths and whatever happens to the opponent in the
\* same sub-step; a snake whose cell asks for none of them lives or loses
\* the head-to-head.
C32_CheckedOnItsOwn ==
  \A k \in 1..Len(SubSteps) : \A i \in 1..2 :
    LET mid == SubSteps[k].mid
        after == SubSteps[k].after.snakes[i]
    IN mid.snakes[i].alive =>
         IF DeathAsked(mid, i) # ""
           THEN ~after.alive /\ after.deathReason = DeathAsked(mid, i)
           ELSE after.alive \/ after.deathReason = "head-to-head"

\* In one sub-step the longer snake ran into the body of the shorter one and
\* the shorter one died as well, of another cause.
C32_Witness ==
  \E k \in 1..Len(SubSteps) : \E i \in 1..2 :
    LET mid == SubSteps[k].mid
        after == SubSteps[k].after
    IN /\ \A j \in 1..2 : mid.snakes[j].alive /\ ~after.snakes[j].alive
       /\ after.snakes[i].deathReason = "body"
       /\ after.snakes[3 - i].deathReason \in {"wall", "obstacle", "self"}
       /\ mid.snakes[i].length > mid.snakes[3 - i].length

\* A snake died in the first sub-step of the last turn.
DiedInFirstSubStep(i) ==
  IsTurn /\ last.pre.snakes[i].alive /\ ~last.sub1.snakes[i].alive

\* C33: if either snake dies in the first sub-step of a turn, no snake moves
\* in a second sub-step of that turn, even when a snake had speed turns left
\* and so a second step remaining.
C33_DeathStopsSubSteps ==
  (\E i \in 1..2 : DiedInFirstSubStep(i)) =>
    /\ ~last.second
    /\ last.moved = last.sub1
    /\ \A j \in 1..2 : GetHead(gs.snakes[j]) = GetHead(last.mid1.snakes[j])

\* A snake without speed died in the first sub-step of a turn in which the
\* other snake, awake and with speed turns left, had a second step to take.
C33_Witness ==
  \E i \in 1..2 :
    /\ DiedInFirstSubStep(i)
    /\ last.pre.snakes[i].speedTurns = 0
    /\ last.pre.snakes[3 - i].speedTurns > 0
    /\ last.pre.snakes[3 - i].sleepTurns = 0
    /\ last.sub1.snakes[3 - i].alive
    /\ GetHead(gs.snakes[3 - i]) = GetHead(last.mid1.snakes[3 - i])
    /\ GetHead(gs.snakes[3 - i]) # GetHead(last.pre.snakes[3 - i])

\* The snake with speed turns left died in its first step.
C33_SpeedingSnakeDies ==
  \E i \in 1..2 :
    /\ DiedInFirstSubStep(i)
    /\ last.pre.snakes[i].speedTurns > 0
    /\ last.pre.snakes[i].sleepTurns = 0
    /\ last.sub1.snakes[3 - i].alive

(* ------------------------------------------------------------------ *)
(* Properties of the apple effects                                     *)
(* ------------------------------------------------------------------ *)

\* The state on which the ApplyAppleEffect call of snake i in the last turn
\* ran (snake 2's call follows snake 1's apple step) and the state it left.
EffectBefore(i) ==
  IF i = 2 /\ last.ate[1] THEN last.spawns[1].after ELSE last.moved
EffectAfter(i) ==
  IF i = 1 THEN last.spawns[1].before ELSE last.spawns[Len(last.spawns)].before

\* The README's apple table: the growth and the score of each type.
TableGrowth(type) == IF type = AppleGod THEN 3 ELSE 1

\* body with n more copies of its last cell.
WithTailCopies(body, n) == body \o [k \in 1..n |-> body[Len(body)]]

\* What the table makes of the eater s: length, score, body and speed
\* turns; every other field but energy as it was.
TableEater(s, type) ==
  IF type = ApplePoison
    THEN [s EXCEPT !.length = IF @ > 1 THEN @ - 1 ELSE @,
                   !.body = IF s.length > 1 THEN SubSeq(@, 1, Len(@) - 1) ELSE @,
                   !.score = IF @ > 0 THEN @ - 1 ELSE @]
    ELSE [s EXCEPT !.length = @ + TableGrowth(type),
                   !.score = @ + TableGrowth(type),
                   !.body = WithTailCopies(@, TableGrowth(type)),
                   !.speedTurns = IF type = AppleSpeed THEN 5 ELSE @]

\* C34: eating an apple changes the eater by exactly the table's deltas
\* (NORMAL +1/+1, GOD +3/+3, SPEED +1/+1 and own speed turns 5, SLEEP +1/+1
\* and the opponent's sleep turns 5, POISON -1/-1 floored at length 1 and
\* score 0), growth appends copies of the tail cell, shrink removes the tail
\* cell, and no other field of the eater but its energy changes.
C34_TableDeltas ==
  \A i \in 1..2 :
    (IsTurn /\ last.ate[i]) =>
      LET before == EffectBefore(i).snakes[i]
          after == EffectAfter(i).snakes[i]
      IN /\ [after EXCEPT !.energy = before.energy] = TableEater(before, last.eaten[i])
         /\ last.eaten[i] = AppleSleep => EffectAfter(i).snakes[3 - i].sleepTurns = 5

\* Both snakes ate in one turn: snake 1 a POISON apple that took its tail
\* cell, then snake 2 a GOD apple that added three copies of its tail cell.
C34_Witness ==
  /\ IsTurn
  /\ last.ate[1]
  /\ last.ate[2]
  /\ last.eaten[1] = ApplePoison
  /\ last.eaten[2] = AppleGod
  /\ Len(EffectAfter(1).snakes[1].body) = Len(EffectBefore(1).snakes[1].body) - 1
  /\ Len(EffectAfter(2).snakes[2].body) = Len(EffectBefore(2).snakes[2].body) + 3
  /\ EffectAfter(2).snakes[2].score = EffectBefore(2).snakes[2].score + 3

(* ------------------------------------------------------------------ *)
(* Properties of the apple steps                                       *)
(* ------------------------------------------------------------------ *)

\* The apples of g on the cell pos.
ApplesOn(g, pos) == {k \in 1..Len(g.apples) : ApplePos(g.apples[k]) = pos}

\* The apple step of snake i in the last turn took the apple a from the
\* board: a lay on the cell of i's head at the end of movement, i was alive,
\* and the board after the removal is the board before without a.
TookApple(i, k) ==
  LET from == EffectBefore(i)
      to == EffectAfter(i)
      a == from.apples[k]
  IN /\ last.moved.snakes[i].alive
     /\ ApplePos(a) = GetHead(last.moved.snakes[i])
     /\ a.type = last.eaten[i]
     /\ to.apples = SubSeq(from.apples, 1, k - 1)
                      \o SubSeq(from.apples, k + 1, Len(from.apples))

\* Every SpawnApple call of the last operation added an apple.
AllSpawned == \A k \in 1..Len(last.spawns) : Added(last.spawns[k])

\* C35: in a turn a living snake consumes at most one apple, one that lies
\* on its head cell at the end of movement; the two snakes do not consume the
\* same apple; each consumed apple is removed and followed by exactly one
\* spawn attempt; the board never holds more than three apples and holds
\* three as long as every spawn attempt found a free cell.
C35_OneApplePerSnake ==
  /\ Len(gs.apples) <= InitialApples
  /\ IsTurn =>
       /\ Len(last.spawns) = Cardinality({i \in 1..2 : last.ate[i]})
       /\ \A i \in 1..2 :
            last.ate[i] => \E k \in 1..Len(EffectBefore(i).apples) : TookApple(i, k)
       /\ (last.ate[1] /\ last.ate[2]) =>
            /\ GetHead(last.moved.snakes[1]) # GetHead(last.moved.snakes[2])
            /\ ApplesOn(last.moved, GetHead(last.moved.snakes[2])) # {}
       /\ (~last.ate[1] /\ ~last.ate[2]) => gs.apples = last.pre.apples
       /\ gs.apples = (IF last.spawns = <<>> THEN last.moved.apples
                        ELSE last.spawns[Len(last.spawns)].after.apples)
       /\ (AllSpawned /\ Len(last.pre.apples) = InitialApples)
            => Len(gs.apples) = InitialApples
  /\ (~IsTurn /\ AllSpawned) => Len(gs.apples) = InitialApples

\* Both snakes ate in one turn, each the apple under its own head, both
\* replacements were spawned and three apples lie on the board.
C35_Witness ==
  /\ IsTurn
  /\ last.ate[1]
  /\ last.ate[2]
  /\ Len(last.spawns) = 2
  /\ AllSpawned
  /\ Len(last.moved.apples) = InitialApples
  /\ Len(gs.apples) = InitialApples

(* ------------------------------------------------------------------ *)
(* Spawning on crowded boards                                          *)
(* ------------------------------------------------------------------ *)

\* The grid of the crowded boards: wide enough for the two heads of
\* NewGameState to lie more than NeutralBand apart, so that each snake has
\* a zone of its own.
SpawnGridWidth == 6
SpawnGridHeight == 3

\* The state of NewGameState before its SpawnApple calls, without a map.
SpawnBare == BareGameState(SpawnGridWidth, SpawnGridHeight, NilMap)

\* A map file without dimensions whose obstacles fill every cell of the
\* given zones that no snake of NewGameState lies on, but for the first
\* `spare` of them.
ZoneCellsOf(zones) ==
  SelectSeq(GridScan(SpawnBare),
            LAMBDA pos : pos \notin Occupied(SpawnBare) /\ ZoneOf(SpawnBare, pos) \in zones)
BlockedMap(zones, spare) ==
  [nil |-> FALSE, width |-> 0, height |-> 0,
   obstacles |-> SubSeq(ZoneCellsOf(zones), spare + 1, Len(ZoneCellsOf(zones)))]

\* The map files of the crowded boards: from the open board to the board
\* without a free cell.
SpawnMaps ==
  {NilMap,
   BlockedMap({"snake2"}, 0),
   BlockedMap({"neutral"}, 0),
   BlockedMap({"neutral"}, 1),
   BlockedMap({"neutral", "snake1"}, 0),
   BlockedMap({"neutral", "snake2"}, 0),
   BlockedMap({"neutral", "snake1", "snake2"}, 2),
   BlockedMap({"neutral", "snake1", "snake2"}, 0)}

SpawnInit ==
  /\ \E m \in SpawnMaps, tape \in RandTapes :
       Created(NewGameState(SpawnGridWidth, SpawnGridHeight, m, tape))
  /\ MatchCreated

\* The first turns on a crowded board, for any two moves.
SpawnTurns == 2
SpawnTurn ==
  /\ ~gs.gameOver
  /\ gs.turn < SpawnTurns
  /\ \E move1, move2 \in Directions : Played(ProcessTurn(gs, rand, move1, move2))
  /\ UNCHANGED matchVars

SpecSpawn == SpawnInit /\ [][SpawnTurn]_vars

\* The unoccupied cells of g's grid, and those of one zone.
FreeCells(g) ==
  {Position(px, py) : px \in 0..(g.gridWidth - 1), py \in 0..(g.gridHeight - 1)}
    \ Occupied(g)
FreeIn(g, zone) == {pos \in FreeCells(g) : ZoneOf(g, pos) = zone}

\* The zone the apple counts of g choose: snake 2's when it holds fewer
\* apples than snake 1's, snake 1's when it holds fewer than snake 2's, the
\* neutral zone when they hold as many.
CountsZone(g) ==
  IF ZoneAppleCount(g, "snake2") < ZoneAppleCount(g, "snake1") THEN "snake2"
  ELSE IF ZoneAppleCount(g, "snake1") < ZoneAppleCount(g, "snake2") THEN "snake1"
  ELSE "neutral"

\* The zone the claimed fallback order gives on g.
ClaimedZone(g) ==
  IF FreeIn(g, CountsZone(g)) # {} THEN CountsZone(g)
  ELSE IF FreeIn(g, "neutral") # {} THEN "neutral"
  ELSE IF FreeIn(g, "snake1") # {} THEN "snake1"
  ELSE "snake2"

\* C36: a SpawnApple call adds exactly one apple whenever the grid has an
\* unoccupied cell, in the zone the counts choose or, when that zone has no
\* free cell, in the neutral zone, else snake 1's, else snake 2's; it leaves
\* the apples as they were only when no cell is unoccupied; it changes no
\* snake and not the map.
C36_SpawnFallback ==
  \A k \in 1..Len(last.spawns) :
    LET b == last.spawns[k].before
        a == last.spawns[k].after
    IN /\ a = [b EXCEPT !.apples = a.apples]
       /\ IF FreeCells(b) = {}
            THEN a.apples = b.apples
            ELSE /\ Len(a.apples) = Len(b.apples) + 1
                 /\ SubSeq(a.apples, 1, Len(b.apples)) = b.apples
                 /\ ApplePos(a.apples[Len(a.apples)]) \in FreeIn(b, ClaimedZone(b))

\* A SpawnApple call on a board whose neutral zone had no free cell while
\* the counts chose it: the apple went to snake 1's zone; and a later call
\* of the same NewGameState found no free cell and added nothing.
C36_Witness ==
  /\ last.op = "NewGameState"
  /\ \E k \in 1..Len(last.spawns) :
       LET b == last.spawns[k].before
       IN /\ CountsZone(b) = "neutral"
          /\ FreeIn(b, "neutral") = {}
          /\ Added(last.spawns[k])
          /\ ZoneOf(b, ApplePos(NewApple(last.spawns[k]))) = "snake1"
  /\ \E k \in 1..Len(last.spawns) :
       /\ FreeCells(last.spawns[k].before) = {}
       /\ last.spawns[k].after = last.spawns[k].before

(* ------------------------------------------------------------------ *)
(* Properties of the serialisation                                     *)
(* ------------------------------------------------------------------ *)

\* The step writes a state line to agent b: ToJSON(b) ran in it.
WritesState(b) == Len(agents'[b].inbox) = Len(agents[b].inbox) + 1
WrittenState(b) == agents'[b].inbox[Len(agents'[b].inbox)].state

\* The step is the return of agent b's GetMove call with a fallback move.
ReturnsFallback(b) ==
  /\ calls[b].state # "returned"
  /\ calls'[b].state = "returned"
  /\ calls'[b].resp.error # ""

\* C37: serialising the state for an agent leaves the live state as it was,
\* slot 0 holding snake 1 and slot 1 snake 2 also after ToJSON(2), whose
\* document lists snake 2 first; and the fallback move of agent k is the
\* direction of snake k in the live state, not the opponent's.
C37_LiveStateKept ==
  [][\A b \in Bots :
       /\ WritesState(b) =>
            /\ gs' = gs
            /\ \A i \in 1..2 : gs'.snakes[i].id = i
            /\ WrittenState(b).snakes[1] = SnakeJSON(gs.snakes[b])
            /\ WrittenState(b).snakes[2] = SnakeJSON(gs.snakes[3 - b])
       /\ ReturnsFallback(b) =>
            /\ calls'[b].resp.move = gs.snakes[b].direction
            /\ gs' = gs]_vars

\* After the first turn, agent 2 was sent the state with its own snake
\* first, did not answer in time and got the direction of snake 2 of the
\* live state, which is not the direction of snake 1.
C37_Witness ==
  /\ gs.turn >= 1
  /\ match.pc = "wait"
  /\ calls[2].state = "returned"
  /\ calls[2].resp.timeout
  /\ agents[2].inbox # <<>>
  /\ agents[2].inbox[Len(agents[2].inbox)].turn = calls[2].turn
  /\ agents[2].inbox[Len(agents[2].inbox)].state.snakes[1].id = 2
  /\ gs.snakes[2].id = 2
  /\ calls[2].resp.move = gs.snakes[2].direction
  /\ gs.snakes[2].direction # gs.snakes[1].direction

(* ------------------------------------------------------------------ *)
(* Determinism of ProcessTurn                                          *)
(* ------------------------------------------------------------------ *)

\* The first turns of a game, for any two moves.
ReplayTurns == 2
ReplayTurn ==
  /\ ~gs.gameOver
  /\ gs.turn < ReplayTurns
  /\ \E move1, move2 \in Directions : Played(ProcessTurn(gs, rand, move1, move2))
  /\ UNCHANGED matchVars

SpecReplay == Init /\ [][ReplayTurn]_vars

\* What the random source returns to the SpawnApple calls of the turn when
\* it is run again: the lowest cell index or one beyond those of the
\* modelled tapes, and any apple type.
ReplayTapes == {<<Draw(i, rng)>> : i \in {0, RandBound}, rng \in RngDraws}

\* g without its apples.
ButApples(g) == [g EXCEPT !.apples = <<>>]

\* The last turn run again with the random tape t.
Rerun(t) == ProcessTurn(last.pre, t, last.move1, last.move2).g

\* C38: ProcessTurn run again from the same pre-turn state with the same two
\* moves gives the same turn counter, the same fields of both snakes, the
\* same game_over and the same winner whatever the random source returns;
\* only the apples can differ.
C38_DeterministicButApples ==
  IsTurn => \A t \in ReplayTapes : ButApples(Rerun(t)) = ButApples(gs)

\* A turn in which both snakes ate and in which a replacement lies on
\* another cell or is of another type when the turn is run again.
C38_Witness ==
  /\ IsTurn
  /\ last.ate[1]
  /\ last.ate[2]
  /\ \E t \in ReplayTapes : Rerun(t).apples # gs.apples

(* ------------------------------------------------------------------ *)
(* Properties of the timeout counter                                   *)
(* ------------------------------------------------------------------ *)

\* The number of turn records of the replay m whose timeout flag of agent b
\* is set.
FlaggedRecords(m, b) ==
  Cardinality({i \in 1..Len(m.turns) :
                 IF b = 1 THEN m.turns[i].timeout1 ELSE m.turns[i].timeout2})

\* The step is the return of agent b's GetMove call by ctx.Done.
EndsByDeadline(b) ==
  /\ calls[b].state = "select"
  /\ calls'[b].state = "returned"
  /\ calls'[b].resp.timeout

\* C39: the timeout counter of an agent never decreases and grows by
\* exactly one in each GetMove call that ends by deadline expiry and in no
\* other step; when the match is finalised it equals, as do the stats of the
\* replay, the number of turn records whose timeout flag of the agent is set.
C39_TimeoutsMatchRecords ==
  [][\A b \in Bots :
       /\ bots'[b].timeoutCount >= bots[b].timeoutCount
       /\ EndsByDeadline(b) => bots'[b].timeoutCount = bots[b].timeoutCount + 1
       /\ bots'[b].timeoutCount # bots[b].timeoutCount => EndsByDeadline(b)
       /\ (match.pc # "done" /\ match'.pc = "done") =>
            /\ bots'[b].timeoutCount = FlaggedRecords(match', b)
            /\ match'.stats[b].timeout_count = FlaggedRecords(match', b)]_vars

\* A finished match in which agent 1 let the deadline pass twice and agent 2
\* once.
C39_Witness ==
  /\ match.pc = "done"
  /\ bots[1].timeoutCount = 2
  /\ bots[2].timeoutCount = 1
  /\ FlaggedRecords(match, 1) = 2
  /\ FlaggedRecords(match, 2) = 1
  /\ match.stats[1].timeout_count = 2

(* ------------------------------------------------------------------ *)
(* Properties of the body chain                                        *)
(* ------------------------------------------------------------------ *)

\* Every two consecutive cells of body are the same cell or orthogonal
\* neighbours.
Chain(body) ==
  \A k \in 1..(Len(body) - 1) : manhattanDistance(body[k], body[k + 1]) <= 1

\* The states before and after the Move calls of each sub-step of the last
\* turn.
MoveSteps ==
  IF ~IsTurn THEN <<>>
  ELSE <<[from |-> last.pre, to |-> last.mid1]>>
         \o (IF last.second THEN <<[from |-> last.sub1, to |-> last.mid2]>> ELSE <<>>)

\* Snake i did not move in the step, or its head went to an orthogonal
\* neighbour of the previous head cell and the other cells moved up.
SteppedToNeighbour(from, to) ==
  \/ to.body = from.body
  \/ /\ manhattanDistance(GetHead(to), GetHead(from)) = 1
     /\ Len(to.body) = Len(from.body)
     /\ SubSeq(to.body, 2, Len(to.body)) = SubSeq(from.body, 1, Len(from.body) - 1)

\* C40: the body of each snake is a connected chain, every two consecutive
\* cells being the same cell (tail copies left by growth) or orthogonal
\* neighbours, and each step moves the head to an orthogonal neighbour of the
\* previous head cell.
C40_BodyIsChain ==
  \A i \in 1..2 :
    /\ Len(gs.snakes[i].body) >= 1
    /\ Chain(gs.snakes[i].body)
    /\ \A k \in 1..Len(MoveSteps) :
         /\ Chain(MoveSteps[k].to.snakes[i].body)
         /\ SteppedToNeighbour(MoveSteps[k].from.snakes[i], MoveSteps[k].to.snakes[i])

\* A snake that has turned a corner, carries tail copies left by growth
\* and has just stepped twice in one turn.
C40_Witness ==
  \E i \in 1..2 :
    /\ IsTurn
    /\ last.second
    /\ GetHead(last.mid1.snakes[i]) # GetHead(last.pre.snakes[i])
    /\ GetHead(last.mid2.snakes[i]) # GetHead(last.sub1.snakes[i])
    /\ \E k \in 1..(Len(gs.snakes[i].body) - 1) :
         gs.snakes[i].body[k] = gs.snakes[i].body[k + 1]
    /\ \E k \in 1..(Len(gs.snakes[i].body) - 1) :
         gs.snakes[i].body[k].x # gs.snakes[i].body[k + 1].x
    /\ \E k \in 1..(Len(gs.snakes[i].body) - 1) :
         gs.snakes[i].body[k].y # gs.snakes[i].body[k + 1].y

====
